---- MODULE Spec2Model ----
(***************************************************************************)
(* PaperDAW: notation-to-audio compilation, the mixer and the playback     *)
(* controller of src/PaperDAW.py.                                          *)
(*                                                                         *)
(* Text is a sequence of one-character strings; a token is such a sequence *)
(* too.  A PCM buffer is a sequence of integer samples in the mixer and    *)
(* the controller, and a length plus the sample ranges written into it in  *)
(* the synthesizers.                                                       *)
(***************************************************************************)
EXTENDS Integers, Sequences, FiniteSets, TLC

VARIABLES
    call,                 \* the arguments of the function under evaluation
    ret,                  \* its return value (None: not returned / no value)
    gain_dial,            \* Track.gain_dial.value()
    gain,                 \* Track.gain, in 1/GainScale
    mixer_tracks,         \* AudioMixer.tracks: name -> buffer
    is_playing_globally,  \* MainWindow.is_playing_globally
    playback_thread,      \* Track.playback_thread, per track
    audio_thread,         \* Track.audio_thread, per track
    global_audio_thread,  \* MainWindow.global_audio_thread
    sd_stream,            \* the sounddevice stream now playing
    text_input,           \* Track.text_input.toPlainText(), per track
    clock,                \* the position of AudioPlaybackThread.run, per track
    event_queue,          \* update_display signals queued for the GUI thread
    display,              \* Track.display_label, per track
    beat_count,           \* MetronomeTrack.beat_count
    gui,                  \* the position of the GUI thread in its handler
    mixer_mutex,          \* AudioMixer.mutex
    mixer_op,             \* the mixer operation under way
    clock_mutex           \* AudioPlaybackThread.mutex, per track

\* the variables of the stepwise views of the clock threads and the mixer lock
fine_vars == <<text_input, clock, event_queue, display, beat_count, gui,
               mixer_mutex, mixer_op, clock_mutex>>

vars == <<call, ret, gain_dial, gain, mixer_tracks, is_playing_globally,
          playback_thread, audio_thread, global_audio_thread, sd_stream,
          fine_vars>>


Max(a, b) == IF a >= b THEN a ELSE b

Min2(a, b) == IF a <= b THEN a ELSE b

RECURSIVE SeqsUpTo(_, _)
\* every sequence over S of length at most n
SeqsUpTo(S, n) ==
    IF n = 0 THEN {<<>>}
    ELSE LET shorter == SeqsUpTo(S, n - 1)
         IN  shorter \cup {Append(s, x) : s \in shorter, x \in S}

(***************************************************************************)
(* Tokenizer: notation.replace('|', '').split()                            *)
(***************************************************************************)
IsSpace(c) == c \in {" ", "\n", "\t"}

\* str.replace(old, ''): every occurrence of the character is deleted
replace(text, old) == SelectSeq(text, LAMBDA c : c # old)

RECURSIVE SplitFrom(_, _, _, _)
SplitFrom(text, i, word, out) ==
    IF i > Len(text)
    THEN IF word = <<>> THEN out ELSE Append(out, word)
    ELSE IF IsSpace(text[i])
         THEN SplitFrom(text, i + 1, <<>>,
                        IF word = <<>> THEN out ELSE Append(out, word))
         ELSE SplitFrom(text, i + 1, Append(word, text[i]), out)

\* str.split() without arguments: split on runs of whitespace, no empty token
split(text) == SplitFrom(text, 1, <<>>, <<>>)

\* a faulty variant of tokenize: the bar is turned into a blank, not deleted
tokenize_bar_as_blank(notation) ==
    split([i \in 1..Len(notation) |->
              IF notation[i] = "|" THEN " " ELSE notation[i]])

tokenize(notation) == split(replace(notation, "|"))

\* the notation text of a token sequence: tokens joined by single blanks
RECURSIVE Join(_)
Join(tokens) ==
    IF tokens = <<>> THEN <<>>
    ELSE IF Len(tokens) = 1 THEN tokens[1]
    ELSE tokens[1] \o <<" ">> \o Join(Tail(tokens))

(***************************************************************************)
(* Timing base shared by the synthesizers.  beat_duration = 60/tempo/4 is  *)
(* kept exact: int(44100 * beat_duration * k) is the floor of              *)
(* 44100*60*k / (4*tempo).                                                 *)
(***************************************************************************)
SampleRate == 44100
TempoMin == 5
TempoMax == 480
TempoDefault == 120

\* a faulty variant of SlotSamples: the count is rounded up past the slot
SlotSamples_up(k, tempo) == (SampleRate * 60 * k) \div (4 * tempo) + 1

\* int(k * 44100 * beat_duration)
SlotSamples(k, tempo) == (SampleRate * 60 * k) \div (4 * tempo)

\* int(44100 * ms/1000): the length of a one-shot sound of ms milliseconds
SoundSamples(ms) == (SampleRate * ms) \div 1000

\* round(44100 * 60/tempo/4 * k), halves rounded up
RoundSamples(k, tempo) == (2 * SampleRate * 60 * k + 4 * tempo) \div (8 * tempo)

NoError == "none"

\* np.zeros(int(44100 * beat_duration * len(symbols)))
zeros(n) == [error |-> NoError, length |-> n, writes |-> <<>>]

\* full_sequence[first:first+count] += sound, with len(sound) = count: the
\* slice is clipped to the buffer, and numpy raises ValueError when the
\* clipped slice and the sound differ in length
AddSound(buf, w) ==
    IF buf.error # NoError THEN buf
    ELSE IF w.first + w.count > buf.length
         THEN [buf EXCEPT !.error = "ValueError"]
         ELSE [buf EXCEPT !.writes = Append(@, w)]

(***************************************************************************)
(* Metronome, Lyrics, Drum and Hat synthesizers                            *)
(***************************************************************************)
\* len(click) = len(accent) = int(44100 * 0.05)
MetronomeBody(tempo, buf, i, symbol) ==
    LET start == SlotSamples(i, tempo)
    IN  IF symbol \in {<<"@">>, <<"$">>}
        THEN AddSound(buf, [slot |-> i, symbol |-> symbol, first |-> start,
                            count |-> SoundSamples(50)])
        ELSE buf

\* "for i, symbol in enumerate(symbols)" from index i (counted from 0 as in
\* the source) on; an exception ends the loop
RECURSIVE MetronomeLoop(_, _, _, _)
MetronomeLoop(tempo, symbols, i, buf) ==
    IF i >= Len(symbols) \/ buf.error # NoError THEN buf
    ELSE MetronomeLoop(tempo, symbols, i + 1,
                      MetronomeBody(tempo, buf, i, symbols[i + 1]))

MetronomeTrack_create_audio_data(notation, tempo) ==
    LET symbols == tokenize(notation)
    IN  MetronomeLoop(tempo, symbols, 0, zeros(SlotSamples(Len(symbols), tempo)))

LyricsTrack_create_audio_data(notation, tempo) ==
    LET symbols == tokenize(notation)
    IN  zeros(SlotSamples(Len(symbols), tempo))

\* a faulty variant of fit_sound: the sound is returned as it is
fit_sound_as_is(sound_len, start, end) == sound_len

\* fit_sound(sound, start, end): the sound cut or zero-padded to end - start
fit_sound(sound_len, start, end) == end - start

\* kick, bass and snare are int(44100 * 0.1) samples, the clap int(44100 * 0.05)
DrumBody(tempo, buf, i, symbol) ==
    LET start == SlotSamples(i, tempo)
        end   == start + SlotSamples(1, tempo)
        Add(sound_len) ==
            AddSound(buf, [slot |-> i, symbol |-> symbol, first |-> start,
                           count |-> fit_sound(sound_len, start, end)])
    IN  IF symbol \in {<<"K">>, <<"B">>, <<"S">>} THEN Add(SoundSamples(100))
        ELSE IF symbol = <<"C">> THEN Add(SoundSamples(50))
        ELSE buf

\* the loop over enumerate(symbols), from index i on
RECURSIVE DrumLoop(_, _, _, _)
DrumLoop(tempo, symbols, i, buf) ==
    IF i >= Len(symbols) \/ buf.error # NoError THEN buf
    ELSE DrumLoop(tempo, symbols, i + 1,
                 DrumBody(tempo, buf, i, symbols[i + 1]))

DrumTrack_create_audio_data(notation, tempo) ==
    LET symbols == tokenize(notation)
    IN  DrumLoop(tempo, symbols, 0, zeros(SlotSamples(Len(symbols), tempo)))

\* closed hat int(44100*0.05), open hat int(44100*0.1), pedal int(44100*0.075)
HatBody(tempo, buf, i, symbol) ==
    LET start == SlotSamples(i, tempo)
        Add(sound_len) ==
            AddSound(buf, [slot |-> i, symbol |-> symbol, first |-> start,
                           count |-> sound_len])
    IN  IF symbol = <<"H">> THEN Add(SoundSamples(50))
        ELSE IF symbol = <<"O">> THEN Add(SoundSamples(100))
        ELSE IF symbol = <<"P">> THEN Add(SoundSamples(75))
        ELSE buf

\* the loop over enumerate(symbols), from index i on
RECURSIVE HatLoop(_, _, _, _)
HatLoop(tempo, symbols, i, buf) ==
    IF i >= Len(symbols) \/ buf.error # NoError THEN buf
    ELSE HatLoop(tempo, symbols, i + 1,
                HatBody(tempo, buf, i, symbols[i + 1]))

HatTrack_create_audio_data(notation, tempo) ==
    LET symbols == tokenize(notation)
    IN  HatLoop(tempo, symbols, 0, zeros(SlotSamples(Len(symbols), tempo)))

(***************************************************************************)
(* Melody and Bass: pitch parsing and the sustain fold                     *)
(***************************************************************************)
Digits == {"0", "1", "2", "3", "4", "5", "6", "7", "8", "9"}

\* int(c) of a digit character
int(c) ==
    CASE c = "0" -> 0 [] c = "1" -> 1 [] c = "2" -> 2 [] c = "3" -> 3
      [] c = "4" -> 4 [] c = "5" -> 5 [] c = "6" -> 6 [] c = "7" -> 7
      [] c = "8" -> 8 [] c = "9" -> 9

\* the notes dictionary of note_to_freq
notes ==
    (<<"C">> :> 0) @@ (<<"C", "#">> :> 1) @@ (<<"D">> :> 2) @@
    (<<"D", "#">> :> 3) @@ (<<"E">> :> 4) @@ (<<"F">> :> 5) @@
    (<<"F", "#">> :> 6) @@ (<<"G">> :> 7) @@ (<<"G", "#">> :> 8) @@
    (<<"A">> :> 9) @@ (<<"A", "#">> :> 10) @@ (<<"B">> :> 11)

\* The frequency 440 * 2^(n/12) is kept as n, its distance from A4 in
\* semitones: 440 Hz is n = 0.  invalid: "Invalid note" was printed.
Freq(n, invalid) == [error |-> NoError, semitones |-> n, invalid |-> invalid]

Raise(exception) == [error |-> exception, semitones |-> 0, invalid |-> FALSE]

\* a faulty variant of note_to_freq: the note name is the first character
note_to_freq_first_letter(note) ==
    IF Len(note) < 2 THEN Raise("IndexError")
    ELSE IF note[Len(note)] \notin Digits THEN Raise("ValueError")
    ELSE LET octave    == int(note[Len(note)])
             note_name == SubSeq(note, 1, 1)
         IN  IF note_name \notin DOMAIN notes
             THEN Freq(0, TRUE)
             ELSE Freq((notes[note_name] - 9) + 12 * (octave - 4), FALSE)

\* note[-2] raises IndexError on a one-character token, int(note[-1]) raises
\* ValueError when the last character is no digit
note_to_freq(note) ==
    IF Len(note) < 2 THEN Raise("IndexError")
    ELSE IF note[Len(note)] \notin Digits THEN Raise("ValueError")
    ELSE LET octave    == int(note[Len(note)])
             note_name == SubSeq(note, 1, Len(note) - 1)
         IN  IF note_name \notin DOMAIN notes
             THEN Freq(0, TRUE)
             ELSE Freq((notes[note_name] - 9) + 12 * (octave - 4), FALSE)

\* current_note = None; "if current_note:" is false for None as for ''
NoNote == <<>>

\* a faulty variant of Flush: the note is rendered from the slot at which it
\* is flushed, not from the slot at which it began
Flush_from_end(tempo, st, at) ==
    LET freq  == note_to_freq(st.current_note)
        n     == SlotSamples(st.current_duration, tempo)
        start == SlotSamples(at, tempo)
        end   == IF start + n > st.length THEN st.length ELSE start + n
    IN  IF freq.error # NoError
        THEN [st EXCEPT !.error = freq.error]
        ELSE [st EXCEPT !.writes = Append(@,
                 [note |-> st.current_note,
                  slot |-> at,
                  duration |-> st.current_duration,
                  semitones |-> freq.semitones, invalid |-> freq.invalid,
                  first |-> start, count |-> end - start])]

\* The block repeated at lines 287-294, 301-308 and 314-321: the held note is
\* rendered from slot at - current_duration for current_duration slots, cut
\* at the end of the buffer.
Flush(tempo, st, at) ==
    LET freq  == note_to_freq(st.current_note)
        n     == SlotSamples(st.current_duration, tempo)
        start == SlotSamples(at - st.current_duration, tempo)
        end   == IF start + n > st.length THEN st.length ELSE start + n
    IN  IF freq.error # NoError
        THEN [st EXCEPT !.error = freq.error]
        ELSE [st EXCEPT !.writes = Append(@,
                 [note |-> st.current_note,
                  slot |-> at - st.current_duration,
                  duration |-> st.current_duration,
                  semitones |-> freq.semitones, invalid |-> freq.invalid,
                  first |-> start, count |-> end - start])]

\* a faulty variant of MelodyBody: a pitch token keeps the slots counted by
\* the sustain marks met since the last rest
MelodyBody_keeps_count(tempo, st, i, symbol) ==
    IF symbol \notin {<<"-">>, <<".">>}
    THEN LET flushed == IF st.current_note # NoNote
                        THEN Flush(tempo, st, i) ELSE st
         IN  IF flushed.error # NoError THEN flushed
             ELSE [flushed EXCEPT !.current_note = symbol,
                                  !.current_duration =
                                      IF st.current_note = NoNote
                                      THEN st.current_duration + 1 ELSE 1]
    ELSE IF symbol = <<"-">>
    THEN [st EXCEPT !.current_duration = @ + 1]
    ELSE IF st.current_note # NoNote
         THEN LET flushed == Flush(tempo, st, i)
              IN  IF flushed.error # NoError THEN flushed
                  ELSE [flushed EXCEPT !.current_note = NoNote,
                                       !.current_duration = 0]
         ELSE st

\* the body of the loop of lines 284-310
MelodyBody(tempo, st, i, symbol) ==
    IF symbol \notin {<<"-">>, <<".">>}
    THEN LET flushed == IF st.current_note # NoNote
                        THEN Flush(tempo, st, i) ELSE st
         IN  IF flushed.error # NoError THEN flushed
             ELSE [flushed EXCEPT !.current_note = symbol,
                                  !.current_duration = 1]
    ELSE IF symbol = <<"-">>
    THEN [st EXCEPT !.current_duration = @ + 1]
    ELSE IF st.current_note # NoNote
         THEN LET flushed == Flush(tempo, st, i)
              IN  IF flushed.error # NoError THEN flushed
                  ELSE [flushed EXCEPT !.current_note = NoNote,
                                       !.current_duration = 0]
         ELSE st

\* the loop over enumerate(symbols), from index i on; buf carries
\* current_note and current_duration
RECURSIVE MelodyLoop(_, _, _, _)
MelodyLoop(tempo, symbols, i, buf) ==
    IF i >= Len(symbols) \/ buf.error # NoError THEN buf
    ELSE MelodyLoop(tempo, symbols, i + 1,
                   MelodyBody(tempo, buf, i, symbols[i + 1]))

\* BassTrack inherits it; only create_key_sound, the waveform, differs
MelodyTrack_create_audio_data(notation, tempo) ==
    LET symbols == tokenize(notation)
        init == [error |-> NoError,
                 length |-> SlotSamples(Len(symbols), tempo),
                 writes |-> <<>>,
                 current_note |-> NoNote, current_duration |-> 0]
        last == MelodyLoop(tempo, symbols, 0, init)
        done == IF last.error = NoError /\ last.current_note # NoNote
                THEN Flush(tempo, last, Len(symbols)) ELSE last
    IN  [error |-> done.error, length |-> done.length, writes |-> done.writes]

Kinds == {"Metronome", "Lyrics", "Drum", "Hat", "Melody", "Bass"}

\* the dispatch of track.create_audio_data on the track's class
create_audio_data(kind, notation, tempo) ==
    CASE kind = "Metronome" -> MetronomeTrack_create_audio_data(notation, tempo)
      [] kind = "Lyrics"    -> LyricsTrack_create_audio_data(notation, tempo)
      [] kind = "Drum"      -> DrumTrack_create_audio_data(notation, tempo)
      [] kind = "Hat"       -> HatTrack_create_audio_data(notation, tempo)
      [] kind = "Melody"    -> MelodyTrack_create_audio_data(notation, tempo)
      [] kind = "Bass"      -> MelodyTrack_create_audio_data(notation, tempo)

(***************************************************************************)
(* The state every specification starts the other components in            *)
(***************************************************************************)
NotReturned == [returned |-> FALSE, value |-> <<>>]

Returned(v) == [returned |-> TRUE, value |-> v]

(***************************************************************************)
(* Gain: self.gain = (self.gain_dial.value() / 50) ** 2.4                  *)
(*                                                                         *)
(* The gain is kept in units of 1/GainScale, rounded down.  With the       *)
(* exponent 12/5, g is at most the gain exactly when                       *)
(* g^5 * 50^12 <= GainScale^5 * dial^12; both sides exceed the machine     *)
(* integers, so they are computed on digit sequences (base Base, least     *)
(* significant digit first, no leading zero).                              *)
(***************************************************************************)
Base == 10000

RECURSIVE MulFrom(_, _, _, _)
MulFrom(a, k, i, carry) ==
    IF i > Len(a)
    THEN IF carry = 0 THEN <<>> ELSE <<carry>>
    ELSE LET p == a[i] * k + carry
         IN  <<p % Base>> \o MulFrom(a, k, i + 1, p \div Base)

\* a * k for 0 <= k < Base
BigMul(a, k) == IF k = 0 THEN <<>> ELSE MulFrom(a, k, 1, 0)

RECURSIVE BigMulPow(_, _, _)
\* a * k^n
BigMulPow(a, k, n) == IF n = 0 THEN a ELSE BigMulPow(BigMul(a, k), k, n - 1)

RECURSIVE LeqFrom(_, _, _)
LeqFrom(a, b, i) ==
    IF i = 0 THEN TRUE
    ELSE IF a[i] # b[i] THEN a[i] < b[i]
    ELSE LeqFrom(a, b, i - 1)

BigLeq(a, b) == IF Len(a) # Len(b) THEN Len(a) < Len(b) ELSE LeqFrom(a, b, Len(a))

GainScale == 1000
DialMin == 0
DialMax == 100
DialDefault == 50
DialUnity == 50
ExponentNum == 12
ExponentDen == 5

\* g^ExponentDen * DialUnity^ExponentNum
GainSide(g) ==
    BigMulPow(BigMulPow(<<1>>, g, ExponentDen), DialUnity, ExponentNum)

\* GainScale^ExponentDen * dial^ExponentNum
DialSide(dial) ==
    BigMulPow(BigMulPow(<<1>>, GainScale, ExponentDen), dial, ExponentNum)

RECURSIVE GainBetween(_, _, _)
\* the largest g in lo..hi-1 with g/GainScale at most the gain whose
\* DialSide is bound, by bisection
GainBetween(bound, lo, hi) ==
    IF hi - lo <= 1 THEN lo
    ELSE LET mid == (lo + hi) \div 2
         IN  IF BigLeq(GainSide(mid), bound) THEN GainBetween(bound, mid, hi)
             ELSE GainBetween(bound, lo, mid)

\* (dial / 50) ** 2.4, in 1/GainScale, rounded down
Power(dial) == GainBetween(DialSide(dial), 0, Base - 1)

\* Power at every position of the dial, computed once
GainTable == [dial \in DialMin..DialMax |-> Power(dial)]

\* Track.update_gain
update_gain(dial) == GainTable[dial]

(***************************************************************************)
(* AudioMixer.  tracks is a dictionary: a function whose domain is the set *)
(* of names registered.  Samples are integers.                             *)
(***************************************************************************)
NoTracks == [name \in {} |-> <<>>]

\* a faulty variant of add_track: a name already present keeps its buffer
add_track_keeps_old(tracks, name, audio_data) ==
    [n \in DOMAIN tracks \cup {name} |->
        IF n \in DOMAIN tracks THEN tracks[n] ELSE audio_data]

\* a faulty variant of add_track: the buffer is not registered
add_track_dropped(tracks, name, audio_data) == tracks

\* self.tracks[name] = audio_data
add_track(tracks, name, audio_data) ==
    [n \in DOMAIN tracks \cup {name} |->
        IF n = name THEN audio_data ELSE tracks[n]]

\* a faulty variant of remove_track: every entry is dropped
remove_track_all(tracks, name) == NoTracks

\* if name in self.tracks: del self.tracks[name]
remove_track(tracks, name) ==
    IF name \in DOMAIN tracks
    THEN [n \in DOMAIN tracks \ {name} |-> tracks[n]]
    ELSE tracks

RECURSIVE MaxLen(_, _)
\* max(len(audio) for audio in self.tracks.values())
MaxLen(tracks, names) ==
    IF names = {} THEN 0
    ELSE LET n == CHOOSE x \in names : TRUE
         IN  Max(Len(tracks[n]), MaxLen(tracks, names \ {n}))

RECURSIVE MixInto(_, _, _)
\* for audio in self.tracks.values(): mixed_audio[:len(audio)] += audio
MixInto(mixed_audio, tracks, names) ==
    IF names = {} THEN mixed_audio
    ELSE LET n     == CHOOSE x \in names : TRUE
             audio == tracks[n]
         IN  MixInto([i \in 1..Len(mixed_audio) |->
                         IF i <= Len(audio) THEN mixed_audio[i] + audio[i]
                         ELSE mixed_audio[i]],
                     tracks, names \ {n})

RECURSIVE MinLen(_, _)
MinLen(tracks, names) ==
    LET n == CHOOSE x \in names : TRUE
    IN  IF names = {n} THEN Len(tracks[n])
        ELSE Min2(Len(tracks[n]), MinLen(tracks, names \ {n}))

\* a faulty variant of get_mixed_audio: the mix is cut to the shortest buffer
get_mixed_audio_shortest(tracks) ==
    IF DOMAIN tracks = {} THEN <<>>
    ELSE LET full == MixInto([i \in 1..MaxLen(tracks, DOMAIN tracks) |-> 0],
                             tracks, DOMAIN tracks)
         IN  SubSeq(full, 1, MinLen(tracks, DOMAIN tracks))

get_mixed_audio(tracks) ==
    IF DOMAIN tracks = {} THEN <<>>
    ELSE LET max_length == MaxLen(tracks, DOMAIN tracks)
         IN  MixInto([i \in 1..max_length |-> 0], tracks, DOMAIN tracks)

(***************************************************************************)
(* Tracks and the playback controller (Track.play, Track.stop,             *)
(* MainWindow.play_all, MainWindow.stop_all), with the threads they start. *)
(*                                                                         *)
(* A handler runs on the GUI thread from start to end and is one action;   *)
(* thread.wait() in it ends with the thread finished.  The threads take    *)
(* their own steps between handlers.                                       *)
(***************************************************************************)
NumTracks == 2

\* MainWindow.tracks (lines 381-388)
MainWindow_tracks ==
    <<"Metronome", "Lyrics", "Kick/Snare", "Hat", "Melody", "Bass">>

\* the order in which the model takes tracks in: a plain track, a track
\* whose stop() also calls sd.stop(), the metronome, then the others
TrackOrder == <<"Kick/Snare", "Melody", "Metronome", "Hat", "Bass", "Lyrics">>

Tracks == {TrackOrder[i] : i \in 1..NumTracks}

\* self.tracks as iterated by "for track in self.tracks"
tracks_list == SelectSeq(MainWindow_tracks, LAMBDA t : t \in Tracks)

TrackIndex(t) ==
    CHOOSE i \in 1..Len(MainWindow_tracks) : MainWindow_tracks[i] = t

TrackKind(t) == IF t = "Kick/Snare" THEN "Drum" ELSE t

\* the tokens of track.text_input.toPlainText(): the i-th track holds i tokens
RECURSIVE Repeat(_, _)
Repeat(token, n) == IF n = 0 THEN <<>> ELSE <<token>> \o Repeat(token, n - 1)

TrackNotation(t) == Join(Repeat(<<".">>, TrackIndex(t)))

RECURSIVE Pow2(_)
Pow2(n) == IF n = 0 THEN 1 ELSE 2 * Pow2(n - 1)

\* track.create_audio_data(notation, tempo) * track.gain, one sample a slot:
\* the samples of different tracks are different powers of two, so that a
\* mix shows which tracks are in it
TrackAudio(t) ==
    [i \in 1..Len(tokenize(TrackNotation(t))) |-> Pow2(TrackIndex(t) - 1)]

NoThread == [state |-> "none", symbols |-> <<>>, audio_data |-> <<>>]

\* AudioPlaybackThread(name, symbols, tempo), started
SymbolClock(symbols) ==
    [state |-> "running", symbols |-> symbols, audio_data |-> <<>>]

\* GlobalPlaybackThread(audio_data), started; run() has not yet called sd.play
SinkThread(audio_data) ==
    [state |-> "started", symbols |-> <<>>, audio_data |-> audio_data]

\* thread is not None and thread.isRunning()
isRunning(thread) == thread.state \in {"started", "running", "playing"}

Finished(thread) == [thread EXCEPT !.state = "finished"]

NoStream == "none"
GlobalSink == "global"

\* Track.stop (lines 156-164, the definition in force), followed by the
\* sd.stop() of MelodyTrack.stop and BassTrack.stop.  st is the controller's
\* state as a record.
Track_stop(t, st) ==
    LET audio_running == isRunning(st.audio_thread[t])
    IN  [st EXCEPT
            !.playback_thread[t] = IF isRunning(@) THEN Finished(@) ELSE @,
            !.audio_thread[t] = IF audio_running THEN Finished(@) ELSE @,
            !.sd_stream = IF audio_running \/ TrackKind(t) \in {"Melody", "Bass"}
                          THEN NoStream ELSE @,
            !.mixer_tracks = remove_track(@, t)]

\* a faulty variant of Track_play: the mixer is cleared before the track is registered,
\* as _play_all does
Track_play_clears_mixer(t, st) ==
    LET stopped == Track_stop(t, st)
        ticking == [stopped EXCEPT
                       !.mixer_tracks = add_track(NoTracks, t, TrackAudio(t)),
                       !.playback_thread[t] =
                           SymbolClock(tokenize(TrackNotation(t)))]
    IN  IF ~ticking.is_playing_globally
        THEN [ticking EXCEPT !.audio_thread[t] =
                                 SinkThread(get_mixed_audio(ticking.mixer_tracks))]
        ELSE ticking

\* Track.play (lines 120-136)
Track_play(t, st) ==
    LET stopped == Track_stop(t, st)
        ticking == [stopped EXCEPT
                       !.mixer_tracks = add_track(@, t, TrackAudio(t)),
                       !.playback_thread[t] =
                           SymbolClock(tokenize(TrackNotation(t)))]
    IN  IF ~ticking.is_playing_globally
        THEN [ticking EXCEPT !.audio_thread[t] =
                                 SinkThread(get_mixed_audio(ticking.mixer_tracks))]
        ELSE ticking

RECURSIVE StopTracks(_, _)
\* for track in self.tracks: track.stop(), from the i-th track on
StopTracks(i, st) ==
    IF i > Len(tracks_list) THEN st
    ELSE StopTracks(i + 1, Track_stop(tracks_list[i], st))

\* a faulty variant of stop_all: the global sink thread is forgotten, not stopped
stop_all_no_join(st) ==
    LET stopped == StopTracks(1, [st EXCEPT !.is_playing_globally = FALSE])
    IN  [stopped EXCEPT !.global_audio_thread = @,
                        !.mixer_tracks = NoTracks,
                        !.sd_stream = NoStream]

\* MainWindow.stop_all (lines 447-458)
stop_all(st) ==
    LET stopped == StopTracks(1, [st EXCEPT !.is_playing_globally = FALSE])
    IN  [stopped EXCEPT !.global_audio_thread = NoThread,
                        !.mixer_tracks = NoTracks,
                        !.sd_stream = NoStream]

RECURSIVE StartTracks(_, _)
\* the loop of _play_all (lines 428-437), from the i-th track on
StartTracks(i, st) ==
    IF i > Len(tracks_list) THEN st
    ELSE LET t == tracks_list[i]
         IN  StartTracks(i + 1,
                 [st EXCEPT
                     !.mixer_tracks = add_track(@, t, TrackAudio(t)),
                     !.playback_thread[t] =
                         SymbolClock(tokenize(TrackNotation(t)))])

\* a faulty variant of play_all: the tracks left in the mixer are not cleared and the
\* running activity is not stopped first
play_all_no_stop(st) ==
    LET started == StartTracks(1, [st EXCEPT !.is_playing_globally = TRUE])
    IN  [started EXCEPT !.global_audio_thread =
                            SinkThread(get_mixed_audio(started.mixer_tracks))]

\* MainWindow.play_all, _play_all and start_global_audio (lines 421-445)
play_all(st) ==
    LET started == StartTracks(1, [stop_all(st) EXCEPT
                                      !.is_playing_globally = TRUE,
                                      !.mixer_tracks = NoTracks])
    IN  [started EXCEPT !.global_audio_thread =
                            SinkThread(get_mixed_audio(started.mixer_tracks))]

\* the controller's variables as one record, and back
Controller ==
    [is_playing_globally |-> is_playing_globally,
     playback_thread     |-> playback_thread,
     audio_thread        |-> audio_thread,
     global_audio_thread |-> global_audio_thread,
     sd_stream           |-> sd_stream,
     mixer_tracks        |-> mixer_tracks]

Becomes(st) ==
    /\ is_playing_globally' = st.is_playing_globally
    /\ playback_thread' = st.playback_thread
    /\ audio_thread' = st.audio_thread
    /\ global_audio_thread' = st.global_audio_thread
    /\ sd_stream' = st.sd_stream
    /\ mixer_tracks' = st.mixer_tracks
    /\ UNCHANGED <<fine_vars, call, ret, gain_dial, gain>>

(***************************************************************************)
(* The stepwise view of the clock threads: AudioPlaybackThread.run step by  *)
(* step, the update_display signals it queues for the GUI thread, and the   *)
(* GUI thread blocking in QThread.wait() inside Track.stop.                 *)
(***************************************************************************)
MaxTicks == 2

\* the tracks of the stepwise view of the controller: a plain track and one
\* whose stop() also calls sd.stop()
StepTracks == {"Kick/Snare", "Melody"}

\* the tracks of the stepwise view of the beat counter: the Metronome and a
\* plain track
BeatTracks == {"Metronome", "Kick/Snare"}

\* the tracks of the view at hand: those that have a clock
ClockTracks == DOMAIN clock

clock_list == SelectSeq(MainWindow_tracks, LAMBDA t : t \in ClockTracks)

\* what is typed into a track's text_input when it is not left empty
Phrase(t) ==
    IF TrackKind(t) \in {"Melody", "Bass"}
    THEN <<<<"C", "4">>, <<"-">>, <<"D", "4">>, <<".">>, <<"E", "4">>>>
    ELSE IF TrackKind(t) = "Metronome"
    THEN <<<<"@">>, <<".">>, <<"$">>>>
    ELSE <<<<"K">>>>

\* the text is left empty, or holds the first MaxTicks tokens of the phrase
ClockNotations(t) ==
    {<<>>, Join(SubSeq(Phrase(t), 1, Min2(MaxTicks, Len(Phrase(t)))))}

\* no AudioPlaybackThread yet: self.playback_thread = None
NoClock ==
    [pc |-> "none", is_playing |-> FALSE, i |-> 0, symbols |-> <<>>,
     emitted |-> <<>>]

\* AudioPlaybackThread(name, symbols, tempo) followed by start(): run() is
\* at the head of its loop; emitted is the list of the signals emitted so far
AudioPlaybackThread_start(symbols) ==
    [pc |-> "check", is_playing |-> TRUE, i |-> 0, symbols |-> symbols,
     emitted |-> <<>>]

\* QThread.isRunning() of a clock thread
ClockRunning(th) == th.pc \in {"check", "emit"}

\* a faulty variant of run_check: is_playing is not looked at
run_check_ignores_flag(th) ==
    IF th.i >= Len(th.symbols)
    THEN [th EXCEPT !.pc = "done"]
    ELSE [th EXCEPT !.pc = "emit"]

\* the head of the loop of run(): the next symbol is taken, the mutex is
\* locked, is_playing is read and the mutex unlocked; the loop is left when
\* the symbols are exhausted or is_playing is False
run_check(th) ==
    IF th.i >= Len(th.symbols) \/ ~th.is_playing
    THEN [th EXCEPT !.pc = "done"]
    ELSE [th EXCEPT !.pc = "emit"]

\* a faulty variant of run_emit: the symbol after the next one is emitted
run_emit_skips(th) ==
    [th EXCEPT !.emitted = Append(@, th.symbols[Len(th.symbols)]),
               !.i = @ + 1,
               !.pc = "check"]

\* self.update_display.emit(symbol); self.msleep(...)
run_emit(th) ==
    [th EXCEPT !.emitted = Append(@, th.symbols[th.i + 1]),
               !.i = @ + 1,
               !.pc = "check"]

\* AudioPlaybackThread.stop
AudioPlaybackThread_stop(th) == [th EXCEPT !.is_playing = FALSE]

\* QLabel("Display") and display_label.setText("Display")
DisplayReset == <<"Display">>

\* Track.update_display and its override in MelodyTrack: the new label text
update_display(kind, label, text) ==
    IF kind \in {"Melody", "Bass"} /\ text = <<"-">> THEN label ELSE text

\* isinstance(track, MetronomeTrack)
IsMetronome(t) == TrackKind(t) = "Metronome"

\* f"Beat {self.beat_count}"
BeatLabel(n) == <<"Beat", ToString(n)>>

\* MetronomeTrack.reset_beat_count: the counter and the label it leaves
reset_beat_count == [beat_count |-> 0, label |-> BeatLabel(0)]

\* MetronomeTrack.update_display: the counter and the label it leaves
MetronomeTrack_update_display(count, label, text) ==
    IF text \in {<<"@">>, <<"$">>}
    THEN [beat_count |-> count + 1, label |-> BeatLabel(count + 1)]
    ELSE [beat_count |-> count, label |-> label]

\* the GUI thread in its event loop
GuiIdle ==
    [pc |-> "idle", handler |-> "none", track |-> "", rest |-> <<>>,
     error |-> NoError]

\* the GUI thread entering track.stop() of the first of the given tracks
GuiStops(handler, tracks) ==
    [pc |-> "stop", handler |-> handler, track |-> Head(tracks),
     rest |-> Tail(tracks), error |-> NoError]

\* create_audio_data(notation, tempo) * gain of track t as the mixer keeps it
\* in this view: one sample for each slot of the synthesized buffer
ClockAudio(t, synth) ==
    [k \in 1..(synth.length \div SlotSamples(1, TempoDefault)) |->
        Pow2(TrackIndex(t) - 1)]

\* the states of the mutex-guarded mixer operations
NoMixerOp == [op |-> "none", pc |-> "idle", name |-> "", audio_data |-> <<>>]

InitClock ==
    /\ clock = [t \in StepTracks |-> NoClock]
    /\ event_queue = <<>>
    /\ display = [t \in StepTracks |-> DisplayReset]
    /\ beat_count = 0
    /\ clock_mutex = [t \in StepTracks |-> "unlocked"]
    /\ gui = GuiIdle

InitMixerLock ==
    /\ mixer_mutex = "unlocked"
    /\ mixer_op = NoMixerOp

InitRest ==
    /\ call = <<>>
    /\ ret = NotReturned

InitGain ==
    /\ gain_dial = DialDefault
    /\ gain = GainScale

InitController ==
    /\ mixer_tracks = NoTracks
    /\ is_playing_globally = FALSE
    /\ playback_thread = [t \in Tracks |-> NoThread]
    /\ audio_thread = [t \in Tracks |-> NoThread]
    /\ global_audio_thread = NoThread
    /\ sd_stream = NoStream
    /\ InitClock
    /\ text_input = [t \in ClockTracks |-> TrackNotation(t)]
    /\ InitMixerLock

Init == InitRest /\ InitGain /\ InitController

\* the "Play" button of track t
Play(t) == Becomes(Track_play(t, Controller))

\* the "Play All" button
PlayAll == Becomes(play_all(Controller))

\* the "Stop" button
StopAll == Becomes(stop_all(Controller))

\* AudioPlaybackThread.run comes to its end
ClockEnds(t) ==
    /\ playback_thread[t].state = "running"
    /\ playback_thread' = [playback_thread EXCEPT ![t] = Finished(@)]
    /\ UNCHANGED <<fine_vars, call, ret, gain_dial, gain, mixer_tracks,
                   is_playing_globally, audio_thread, global_audio_thread,
                   sd_stream>>

\* GlobalPlaybackThread.run of track t's thread: sd.play(self.audio_data, 44100)
\* ends the stream that was playing and starts this one
SoloSinkPlays(t) ==
    /\ audio_thread[t].state = "started"
    /\ audio_thread' = [audio_thread EXCEPT ![t].state = "playing"]
    /\ sd_stream' = t
    /\ UNCHANGED <<fine_vars, call, ret, gain_dial, gain, mixer_tracks,
                   is_playing_globally, playback_thread, global_audio_thread>>

\* sd.wait() returns (the stream is exhausted, or was stopped or replaced)
\* and run() ends
SoloSinkEnds(t) ==
    /\ audio_thread[t].state = "playing"
    /\ audio_thread' = [audio_thread EXCEPT ![t] = Finished(@)]
    /\ sd_stream' = IF sd_stream = t THEN NoStream ELSE sd_stream
    /\ UNCHANGED <<fine_vars, call, ret, gain_dial, gain, mixer_tracks,
                   is_playing_globally, playback_thread, global_audio_thread>>

GlobalSinkPlays ==
    /\ global_audio_thread.state = "started"
    /\ global_audio_thread' = [global_audio_thread EXCEPT !.state = "playing"]
    /\ sd_stream' = GlobalSink
    /\ UNCHANGED <<fine_vars, call, ret, gain_dial, gain, mixer_tracks,
                   is_playing_globally, playback_thread, audio_thread>>

GlobalSinkEnds ==
    /\ global_audio_thread.state = "playing"
    /\ global_audio_thread' = Finished(global_audio_thread)
    /\ sd_stream' = IF sd_stream = GlobalSink THEN NoStream ELSE sd_stream
    /\ UNCHANGED <<fine_vars, call, ret, gain_dial, gain, mixer_tracks,
                   is_playing_globally, playback_thread, audio_thread>>

Next ==
    \/ \E t \in Tracks : Play(t)
    \/ PlayAll
    \/ StopAll
    \/ \E t \in Tracks : ClockEnds(t)
    \/ \E t \in Tracks : SoloSinkPlays(t)
    \/ \E t \in Tracks : SoloSinkEnds(t)
    \/ GlobalSinkPlays
    \/ GlobalSinkEnds

Spec == Init /\ [][Next]_vars

(***************************************************************************)
(* The tokenizer on its own: a notation is typed, then tokenized.          *)
(***************************************************************************)
MaxNotationLen == 4

NotationChars == {"K", "S", " ", "\n", "|"}

\* "K B . . S" and "K B|. . S"
ExampleNotations ==
    {<<"K", " ", "B", " ", ".", " ", ".", " ", "S">>,
     <<"K", " ", "B", "|", ".", " ", ".", " ", "S">>}

Notations == SeqsUpTo(NotationChars, MaxNotationLen) \cup ExampleNotations

InitTokens ==
    /\ call \in {[notation |-> n] : n \in Notations}
    /\ ret = NotReturned
    /\ InitGain /\ InitController

Tokenize ==
    /\ ~ret.returned
    /\ ret' = Returned(tokenize(call.notation))
    /\ UNCHANGED <<fine_vars, call, gain_dial, gain, mixer_tracks, is_playing_globally,
                   playback_thread, audio_thread, global_audio_thread,
                   sd_stream>>

SpecTokens == InitTokens /\ [][Tokenize]_vars

(***************************************************************************)
(* The synthesizers on their own: create_audio_data of one track kind on   *)
(* a notation and a tempo.                                                 *)
(***************************************************************************)
MaxSlots == 2
MaxNotes == 3

Vocabulary(kind) ==
    CASE kind = "Metronome" -> {<<"@">>, <<"$">>, <<".">>}
      [] kind = "Lyrics"    -> {<<"l", "a">>, <<"-">>, <<".">>}
      [] kind = "Drum"      -> {<<"K">>, <<"C">>, <<".">>}
      [] kind = "Hat"       -> {<<"H">>, <<"O">>, <<"P">>, <<".">>}
      [] OTHER              -> {<<"C", "4">>, <<"H", "9">>, <<"X">>,
                                <<"H", "i">>, <<"-">>, <<".">>}

Melodic == {"Melody", "Bass"}

\* the tempo spin box: setRange(5, 480); the melodic kinds are run at its
\* ends and at its default
Tempos(kind) ==
    IF kind \in Melodic THEN {TempoMin, TempoDefault, TempoMax} ELSE TempoMin..TempoMax

\* the token sequences tried for a kind
TokenSeqs(kind) ==
    SeqsUpTo(Vocabulary(kind), IF kind \in Melodic THEN MaxNotes ELSE MaxSlots)

InitSynth ==
    /\ \E kind \in Kinds :
          \E tokens \in TokenSeqs(kind), tempo \in Tempos(kind) :
              call = [kind |-> kind, notation |-> Join(tokens), tempo |-> tempo]
    /\ ret = NotReturned
    /\ InitGain /\ InitController

Synthesize ==
    /\ ~ret.returned
    /\ ret' = Returned(create_audio_data(call.kind, call.notation, call.tempo))
    /\ UNCHANGED <<fine_vars, call, gain_dial, gain, mixer_tracks, is_playing_globally,
                   playback_thread, audio_thread, global_audio_thread,
                   sd_stream>>

SpecSynth == InitSynth /\ [][Synthesize]_vars

(***************************************************************************)
(* The gain dial on its own                                                *)
(***************************************************************************)
\* the dial is turned to v: valueChanged runs update_gain
TurnDial(v) ==
    /\ v # gain_dial
    /\ gain_dial' = v
    /\ gain' = update_gain(v)
    /\ UNCHANGED <<fine_vars, call, ret, mixer_tracks, is_playing_globally,
                   playback_thread, audio_thread, global_audio_thread,
                   sd_stream>>

NextGain == \E v \in DialMin..DialMax : TurnDial(v)

SpecGain == Init /\ [][NextGain]_vars

(***************************************************************************)
(* The mixer on its own: any buffers are added, removed and mixed.         *)
(***************************************************************************)
MaxBufferLen == 2

Samples == {-1, 1}

Buffers == SeqsUpTo(Samples, MaxBufferLen)

MixerAdd(name, audio_data) ==
    /\ mixer_tracks' = add_track(mixer_tracks, name, audio_data)
    /\ ret' = NotReturned
    /\ UNCHANGED <<fine_vars, call, gain_dial, gain, is_playing_globally,
                   playback_thread, audio_thread, global_audio_thread,
                   sd_stream>>

MixerRemove(name) ==
    /\ mixer_tracks' = remove_track(mixer_tracks, name)
    /\ ret' = NotReturned
    /\ UNCHANGED <<fine_vars, call, gain_dial, gain, is_playing_globally,
                   playback_thread, audio_thread, global_audio_thread,
                   sd_stream>>

MixerMix ==
    /\ ret' = Returned(get_mixed_audio(mixer_tracks))
    /\ UNCHANGED <<fine_vars, call, gain_dial, gain, mixer_tracks, is_playing_globally,
                   playback_thread, audio_thread, global_audio_thread,
                   sd_stream>>

NextMixer ==
    \/ \E name \in Tracks, audio_data \in Buffers : MixerAdd(name, audio_data)
    \/ \E name \in Tracks : MixerRemove(name)
    \/ MixerMix

SpecMixer == Init /\ [][NextMixer]_vars

(***************************************************************************)
(* The clock threads step by step.  A handler of the GUI thread is a       *)
(* sequence of steps: it blocks in QThread.wait() until the thread it       *)
(* joins has left run(), and meanwhile the threads go on.  A signal         *)
(* emitted by a clock thread is queued for the GUI thread, which delivers   *)
(* it from its event loop, between handlers; posted events are delivered    *)
(* before the next click is handled.                                        *)
(***************************************************************************)
\* what no step of this view changes
clock_frame ==
    <<call, ret, gain_dial, gain, playback_thread, text_input, mixer_mutex,
      mixer_op, clock_mutex>>

InitSpecClock ==
    /\ InitRest /\ InitGain
    /\ InitClock
    /\ mixer_tracks = NoTracks
    /\ is_playing_globally = FALSE
    /\ playback_thread = [t \in ClockTracks |-> NoThread]
    /\ audio_thread = [t \in ClockTracks |-> NoThread]
    /\ global_audio_thread = NoThread
    /\ sd_stream = NoStream
    /\ text_input \in {f \in [ClockTracks -> UNION {ClockNotations(t) : t \in ClockTracks}] :
                          \A t \in ClockTracks : f[t] \in ClockNotations(t)}
    /\ InitMixerLock

\* reset_beat_count() ahead of the stop() of a MetronomeTrack: in
\* MetronomeTrack.play and in the loop of stop_all
ResetBeat(t) ==
    /\ beat_count' = IF IsMetronome(t)
                     THEN reset_beat_count.beat_count ELSE beat_count
    /\ display' = IF IsMetronome(t)
                  THEN [display EXCEPT ![t] = reset_beat_count.label]
                  ELSE display

\* the "Play" button of track t: MetronomeTrack.play resets the counter, and
\* Track.play enters self.stop()
ClickPlay(t) ==
    /\ gui.pc = "idle" /\ event_queue = <<>>
    /\ ResetBeat(t)
    /\ gui' = GuiStops("play", <<t>>)
    /\ UNCHANGED <<clock_frame, mixer_tracks, is_playing_globally,
                   audio_thread, global_audio_thread, sd_stream, clock,
                   event_queue>>

\* the "Stop" button: stop_all clears the flag and enters the first
\* track.stop()
ClickStopAll ==
    /\ gui.pc = "idle" /\ event_queue = <<>>
    /\ is_playing_globally' = FALSE
    /\ ResetBeat(Head(clock_list))
    /\ gui' = GuiStops("stop_all", clock_list)
    /\ UNCHANGED <<clock_frame, mixer_tracks, audio_thread,
                   global_audio_thread, sd_stream, clock, event_queue>>

\* the "Play All" button: play_all calls stop_all first
ClickPlayAll ==
    /\ gui.pc = "idle" /\ event_queue = <<>>
    /\ is_playing_globally' = FALSE
    /\ ResetBeat(Head(clock_list))
    /\ gui' = GuiStops("play_all", clock_list)
    /\ UNCHANGED <<clock_frame, mixer_tracks, audio_thread,
                   global_audio_thread, sd_stream, clock, event_queue>>

\* Track.stop, lines 157-159: playback_thread.stop(), then wait() is entered
StopClock ==
    /\ gui.pc = "stop"
    /\ clock' = [clock EXCEPT ![gui.track] =
                    IF ClockRunning(@) THEN AudioPlaybackThread_stop(@) ELSE @]
    /\ gui' = [gui EXCEPT !.pc = "wait_clock"]
    /\ UNCHANGED <<clock_frame, mixer_tracks, is_playing_globally,
                   audio_thread, global_audio_thread, sd_stream, event_queue,
                   display, beat_count>>

\* a faulty variant of JoinClock: wait() does not wait for the thread
JoinClock_no_wait ==
    /\ gui.pc = "wait_clock"
    /\ sd_stream' = IF isRunning(audio_thread[gui.track])
                    THEN NoStream ELSE sd_stream
    /\ gui' = [gui EXCEPT !.pc = "wait_audio"]
    /\ UNCHANGED <<clock_frame, mixer_tracks, is_playing_globally,
                   audio_thread, global_audio_thread, clock, event_queue,
                   display, beat_count>>

\* playback_thread.wait() returns: the clock thread has left run().  Then
\* lines 160-162: sd.stop() if the track's sink thread is running, and
\* audio_thread.wait() is entered
JoinClock ==
    /\ gui.pc = "wait_clock"
    /\ ~ClockRunning(clock[gui.track])
    /\ sd_stream' = IF isRunning(audio_thread[gui.track])
                    THEN NoStream ELSE sd_stream
    /\ gui' = [gui EXCEPT !.pc = "wait_audio"]
    /\ UNCHANGED <<clock_frame, mixer_tracks, is_playing_globally,
                   audio_thread, global_audio_thread, clock, event_queue,
                   display, beat_count>>

\* audio_thread.wait() returns.  Then lines 163-164, the sd.stop() of
\* MelodyTrack.stop and BassTrack.stop, and the reset_beat_count() of
\* MetronomeTrack.stop: track.stop() returns
JoinAudio ==
    /\ gui.pc = "wait_audio"
    /\ ~isRunning(audio_thread[gui.track])
    /\ mixer_tracks' = remove_track(mixer_tracks, gui.track)
    /\ display' = [display EXCEPT ![gui.track] =
                       IF IsMetronome(gui.track)
                       THEN reset_beat_count.label ELSE DisplayReset]
    /\ beat_count' = IF IsMetronome(gui.track)
                     THEN reset_beat_count.beat_count ELSE beat_count
    /\ sd_stream' = IF TrackKind(gui.track) \in {"Melody", "Bass"}
                    THEN NoStream ELSE sd_stream
    /\ gui' = [gui EXCEPT !.pc = "stopped"]
    /\ UNCHANGED <<clock_frame, is_playing_globally, audio_thread,
                   global_audio_thread, clock, event_queue>>

\* Track.play after self.stop(), lines 121-136; an exception of the
\* synthesizer ends the handler
PlayRest ==
    /\ gui.pc = "stopped" /\ gui.handler = "play"
    /\ \E synth \in {create_audio_data(TrackKind(gui.track),
                                       text_input[gui.track], TempoDefault)} :
          IF synth.error # NoError
          THEN /\ gui' = [GuiIdle EXCEPT !.error = synth.error]
               /\ UNCHANGED <<mixer_tracks, clock, audio_thread>>
          ELSE /\ mixer_tracks' = add_track(mixer_tracks, gui.track,
                                            ClockAudio(gui.track, synth))
               /\ clock' = [clock EXCEPT ![gui.track] =
                               AudioPlaybackThread_start(
                                   tokenize(text_input[gui.track]))]
               /\ audio_thread' =
                      IF ~is_playing_globally
                      THEN [audio_thread EXCEPT ![gui.track] =
                               SinkThread(get_mixed_audio(mixer_tracks'))]
                      ELSE audio_thread
               /\ gui' = GuiIdle
    /\ UNCHANGED <<clock_frame, is_playing_globally, global_audio_thread,
                   sd_stream, event_queue, display, beat_count>>

\* stop_all, lines 449-452: the loop goes on to the next track
NextTrack ==
    /\ gui.pc = "stopped" /\ gui.handler \in {"stop_all", "play_all"}
    /\ gui.rest # <<>>
    /\ ResetBeat(Head(gui.rest))
    /\ gui' = [gui EXCEPT !.pc = "stop", !.track = Head(gui.rest),
                          !.rest = Tail(gui.rest)]
    /\ UNCHANGED <<clock_frame, mixer_tracks, is_playing_globally,
                   audio_thread, global_audio_thread, sd_stream, clock,
                   event_queue>>

\* stop_all, lines 453-455: sd.stop() if the ensemble sink thread is running,
\* and global_audio_thread.wait() is entered
StopGlobal ==
    /\ gui.pc = "stopped" /\ gui.handler \in {"stop_all", "play_all"}
    /\ gui.rest = <<>>
    /\ sd_stream' = IF isRunning(global_audio_thread) THEN NoStream ELSE sd_stream
    /\ gui' = [gui EXCEPT !.pc = "wait_global"]
    /\ UNCHANGED <<clock_frame, mixer_tracks, is_playing_globally,
                   audio_thread, global_audio_thread, clock, event_queue,
                   display, beat_count>>

\* global_audio_thread.wait() returns.  Then lines 456-458: stop_all returns,
\* to the event loop or to play_all
JoinGlobal ==
    /\ gui.pc = "wait_global"
    /\ ~isRunning(global_audio_thread)
    /\ global_audio_thread' = NoThread
    /\ mixer_tracks' = NoTracks
    /\ sd_stream' = NoStream
    /\ gui' = IF gui.handler = "stop_all" THEN GuiIdle
              ELSE [gui EXCEPT !.pc = "play_all"]
    /\ UNCHANGED <<clock_frame, is_playing_globally, audio_thread, clock,
                   event_queue, display, beat_count>>

\* one pass of the loop of _play_all (lines 429-437), for track t; st holds
\* the mixer, the clocks and the exception raised, if any
play_all_pass(t, texts, st) ==
    LET synth == create_audio_data(TrackKind(t), texts[t], TempoDefault)
    IN  IF synth.error # NoError
        THEN [st EXCEPT !.error = synth.error]
        ELSE [st EXCEPT
                 !.mixer_tracks = add_track(@, t, ClockAudio(t, synth)),
                 !.clock[t] = AudioPlaybackThread_start(tokenize(texts[t]))]

RECURSIVE play_all_loop(_, _, _)
\* the loop of _play_all (line 428) from the i-th track on; an exception
\* ends it
play_all_loop(i, texts, st) ==
    IF i > Len(clock_list) \/ st.error # NoError THEN st
    ELSE play_all_loop(i + 1, texts, play_all_pass(clock_list[i], texts, st))

\* _play_all and start_global_audio (lines 425-445)
PlayAllRest ==
    /\ gui.pc = "play_all"
    /\ is_playing_globally' = TRUE
    /\ \E done \in {play_all_loop(1, text_input,
                        [mixer_tracks |-> NoTracks, clock |-> clock,
                         error |-> NoError])} :
          /\ mixer_tracks' = done.mixer_tracks
          /\ clock' = done.clock
          /\ global_audio_thread' =
                 IF done.error = NoError
                 THEN SinkThread(get_mixed_audio(done.mixer_tracks))
                 ELSE global_audio_thread
          /\ gui' = [GuiIdle EXCEPT !.error = done.error]
    /\ UNCHANGED <<clock_frame, audio_thread, sd_stream, event_queue, display,
                   beat_count>>

\* the clock thread of track t at the head of its loop
ClockCheck(t) ==
    /\ clock[t].pc = "check"
    /\ clock' = [clock EXCEPT ![t] = run_check(@)]
    /\ UNCHANGED <<clock_frame, mixer_tracks, is_playing_globally,
                   audio_thread, global_audio_thread, sd_stream, event_queue,
                   display, beat_count, gui>>

\* the clock thread of track t emits update_display(symbol): the call of the
\* slot is queued for the GUI thread
ClockEmit(t) ==
    /\ clock[t].pc = "emit"
    /\ clock' = [clock EXCEPT ![t] = run_emit(@)]
    /\ event_queue' = Append(event_queue,
                             [track |-> t, text |-> Head(SubSeq(clock'[t].emitted,
                                                       Len(clock'[t].emitted),
                                                       Len(clock'[t].emitted)))])
    /\ UNCHANGED <<clock_frame, mixer_tracks, is_playing_globally,
                   audio_thread, global_audio_thread, sd_stream, display,
                   beat_count, gui>>

\* the event loop of the GUI thread delivers a queued signal:
\* track.update_display(text)
Deliver ==
    /\ gui.pc = "idle" /\ event_queue # <<>>
    /\ LET e == Head(event_queue)
       IN  IF IsMetronome(e.track)
           THEN \E shown \in {MetronomeTrack_update_display(
                                  beat_count, display[e.track], e.text)} :
                   /\ beat_count' = shown.beat_count
                   /\ display' = [display EXCEPT ![e.track] = shown.label]
           ELSE /\ display' = [display EXCEPT ![e.track] =
                                   update_display(TrackKind(e.track), @, e.text)]
                /\ UNCHANGED beat_count
    /\ event_queue' = Tail(event_queue)
    /\ UNCHANGED <<clock_frame, mixer_tracks, is_playing_globally,
                   audio_thread, global_audio_thread, sd_stream, clock, gui>>

\* the steps of the threads
ThreadStep ==
    \/ \E t \in ClockTracks : ClockCheck(t)
    \/ \E t \in ClockTracks : ClockEmit(t)
    \/ \E t \in ClockTracks : SoloSinkPlays(t)
    \/ \E t \in ClockTracks : SoloSinkEnds(t)
    \/ GlobalSinkPlays
    \/ GlobalSinkEnds

\* the steps of a handler once it is entered, and of the event loop
GuiStep ==
    \/ StopClock
    \/ JoinClock
    \/ JoinAudio
    \/ PlayRest
    \/ NextTrack
    \/ StopGlobal
    \/ JoinGlobal
    \/ PlayAllRest
    \/ Deliver

NextClock ==
    \/ \E t \in ClockTracks : ClickPlay(t)
    \/ ClickStopAll
    \/ ClickPlayAll
    \/ GuiStep
    \/ ThreadStep

SpecClock == InitSpecClock /\ [][NextClock]_vars

\* the stepwise view from one text: one token on the plain track, none on
\* the other
InitStop ==
    /\ InitSpecClock
    /\ text_input = [t \in ClockTracks |->
                        IF t = "Melody" THEN <<>> ELSE Join(Phrase(t))]

\* the threads are scheduled and the GUI thread runs on: no step that stays
\* possible is put off for ever
SpecStopFair ==
    InitStop /\ [][NextClock]_vars /\ WF_vars(GuiStep) /\ WF_vars(ThreadStep)

(***************************************************************************)
(* The mixer's mapping and its mutex, one access at a time: the operations *)
(* of AudioMixer take the mutex around their access, the handlers of       *)
(* MainWindow clear the mapping directly.  Every caller is a handler of    *)
(* the GUI thread, so one operation is under way at a time.                *)
(***************************************************************************)
\* the steps of the clock thread of track t
ClockStep(t) == ClockCheck(t) \/ ClockEmit(t)

\* as SpecStopFair, and each clock thread is scheduled on its own: no clock
\* is put off for ever by the steps of the other threads
SpecRunFair ==
    /\ InitStop /\ [][NextClock]_vars
    /\ WF_vars(GuiStep) /\ WF_vars(ThreadStep)
    /\ WF_vars(ClockStep("Kick/Snare")) /\ WF_vars(ClockStep("Melody"))

\* the stepwise view of the Metronome and a plain track: the Metronome's
\* text is left empty or holds a phrase, the other text is left empty
InitBeat ==
    /\ InitRest /\ InitGain
    /\ clock = [t \in BeatTracks |-> NoClock]
    /\ event_queue = <<>>
    /\ display = [t \in BeatTracks |-> DisplayReset]
    /\ beat_count = 0
    /\ clock_mutex = [t \in BeatTracks |-> "unlocked"]
    /\ gui = GuiIdle
    /\ mixer_tracks = NoTracks
    /\ is_playing_globally = FALSE
    /\ playback_thread = [t \in BeatTracks |-> NoThread]
    /\ audio_thread = [t \in BeatTracks |-> NoThread]
    /\ global_audio_thread = NoThread
    /\ sd_stream = NoStream
    /\ text_input \in {f \in [BeatTracks -> UNION {ClockNotations(t) : t \in BeatTracks}] :
                          \A t \in BeatTracks :
                              IF IsMetronome(t) THEN f[t] \in ClockNotations(t)
                              ELSE f[t] = <<>>}
    /\ InitMixerLock

SpecBeat == InitBeat /\ [][NextClock]_vars

lock_frame ==
    <<call, gain_dial, gain, is_playing_globally, playback_thread,
      audio_thread, global_audio_thread, sd_stream, text_input, clock,
      event_queue, display, beat_count, gui, clock_mutex>>

\* self.mutex.lock() of add_track, remove_track and get_mixed_audio
MutexLock(op, name, audio_data) ==
    /\ mixer_op = NoMixerOp
    /\ mixer_mutex = "unlocked"
    /\ mixer_mutex' = "locked"
    /\ mixer_op' = [op |-> op, pc |-> "access", name |-> name,
                    audio_data |-> audio_data]
    /\ ret' = NotReturned
    /\ UNCHANGED <<lock_frame, mixer_tracks>>

\* the body of the operation, between lock() and unlock()
MixerAccess ==
    /\ mixer_op.pc = "access"
    /\ mixer_op.op \in {"add_track", "remove_track", "get_mixed_audio"}
    /\ mixer_tracks' =
          CASE mixer_op.op = "add_track" ->
                  add_track(mixer_tracks, mixer_op.name, mixer_op.audio_data)
            [] mixer_op.op = "remove_track" ->
                  remove_track(mixer_tracks, mixer_op.name)
            [] OTHER -> mixer_tracks
    /\ ret' = IF mixer_op.op = "get_mixed_audio"
              THEN Returned(get_mixed_audio(mixer_tracks))
              ELSE ret
    /\ mixer_op' = [mixer_op EXCEPT !.pc = "unlock"]
    /\ UNCHANGED <<lock_frame, mixer_mutex>>

\* self.mutex.unlock()
MutexUnlock ==
    /\ mixer_op.pc = "unlock"
    /\ mixer_mutex' = "unlocked"
    /\ mixer_op' = NoMixerOp
    /\ UNCHANGED <<lock_frame, ret, mixer_tracks>>

\* audio_mixer.tracks.clear() of _play_all and stop_all is reached: no call
\* of the mixer, no lock()
ClearEnter ==
    /\ mixer_op = NoMixerOp
    /\ mixer_op' = [NoMixerOp EXCEPT !.op = "clear", !.pc = "access"]
    /\ ret' = NotReturned
    /\ UNCHANGED <<lock_frame, mixer_mutex, mixer_tracks>>

\* audio_mixer.tracks.clear()
ClearAccess ==
    /\ mixer_op.pc = "access"
    /\ mixer_op.op = "clear"
    /\ mixer_tracks' = NoTracks
    /\ mixer_op' = NoMixerOp
    /\ UNCHANGED <<lock_frame, ret, mixer_mutex>>

NextLock ==
    \/ \E name \in Tracks, audio_data \in Buffers :
          MutexLock("add_track", name, audio_data)
    \/ \E name \in Tracks : MutexLock("remove_track", name, <<>>)
    \/ MutexLock("get_mixed_audio", "", <<>>)
    \/ MixerAccess
    \/ MutexUnlock
    \/ ClearEnter
    \/ ClearAccess

SpecLock == Init /\ [][NextLock]_vars

(***************************************************************************)
(* Pitch parsing on its own: note_to_freq of one valid token.              *)
(***************************************************************************)
\* <Letter>[#]<octave digit> for the twelve names of the table
PitchTokens == {name \o <<d>> : name \in DOMAIN notes, d \in Digits}

InitPitch ==
    /\ call \in {[note |-> note] : note \in PitchTokens}
    /\ ret = NotReturned
    /\ InitGain /\ InitController

ParsePitch ==
    /\ ~ret.returned
    /\ ret' = Returned(note_to_freq(call.note))
    /\ UNCHANGED <<fine_vars, call, gain_dial, gain, mixer_tracks,
                   is_playing_globally, playback_thread, audio_thread,
                   global_audio_thread, sd_stream>>

SpecPitch == InitPitch /\ [][ParsePitch]_vars

(***************************************************************************)
(* The timing of a clock on its own: run() emits an event and sleeps, for  *)
(* any tempo of the spin box.  ret holds the number of events emitted and  *)
(* the time slept since the first one, in milliseconds.                    *)
(***************************************************************************)
\* int(beat_duration * 1000), the argument of self.msleep
msleep_ms(tempo) == (60 * 1000) \div (4 * tempo)

InitTiming ==
    /\ call \in {[tempo |-> tempo] : tempo \in TempoMin..TempoMax}
    /\ ret = NotReturned
    /\ InitGain /\ InitController

\* the first pass of the loop of run(): the first event, then msleep
FirstTick ==
    /\ ~ret.returned
    /\ ret' = Returned([events |-> 1, slept_ms |-> msleep_ms(call.tempo)])
    /\ UNCHANGED <<fine_vars, call, gain_dial, gain, mixer_tracks,
                   is_playing_globally, playback_thread, audio_thread,
                   global_audio_thread, sd_stream>>

\* a later pass: the next event is emitted when the sleep is over, then msleep
NextTick ==
    /\ ret.returned
    /\ ret.value.events <= MaxTicks
    /\ ret' = Returned([events |-> ret.value.events + 1,
                        slept_ms |-> ret.value.slept_ms + msleep_ms(call.tempo)])
    /\ UNCHANGED <<fine_vars, call, gain_dial, gain, mixer_tracks,
                   is_playing_globally, playback_thread, audio_thread,
                   global_audio_thread, sd_stream>>

NextTiming == FirstTick \/ NextTick

SpecTiming == InitTiming /\ [][NextTiming]_vars

(***************************************************************************)
(* The locks step by step.  run() takes the mutex of its thread around the *)
(* read of is_playing and stop() takes it around the write; the operations *)
(* of the mixer take the mixer's mutex.  lock() blocks while the mutex is  *)
(* held.  The mixer's operations and stop() are called from handlers of    *)
(* the GUI thread, one at a time; run() is the clock's own thread.         *)
(***************************************************************************)
\* the mixer's buffers of this view
FlagBuffers == {<<1>>}

\* AudioPlaybackThread(...).start() of track t: a new thread, a new mutex
FlagStart(t) ==
    /\ gui.pc = "idle" /\ mixer_op = NoMixerOp
    /\ ~ClockRunning(clock[t]) /\ clock[t].pc \in {"none", "done"}
    /\ clock' = [clock EXCEPT ![t] =
                    AudioPlaybackThread_start(tokenize(text_input[t]))]
    /\ clock_mutex' = [clock_mutex EXCEPT ![t] = "unlocked"]
    /\ UNCHANGED <<call, ret, gain_dial, gain, mixer_tracks,
                   is_playing_globally, playback_thread, audio_thread,
                   global_audio_thread, sd_stream, text_input, event_queue,
                   display, beat_count, gui, mixer_mutex, mixer_op>>

\* run(), lines 52-53: the loop is left when the symbols are exhausted;
\* otherwise self.mutex.lock(), which blocks while the mutex is held
FlagLock(t) ==
    /\ clock[t].pc = "check"
    /\ IF clock[t].i >= Len(clock[t].symbols)
       THEN /\ clock' = [clock EXCEPT ![t].pc = "done"]
            /\ UNCHANGED clock_mutex
       ELSE /\ clock_mutex[t] = "unlocked"
            /\ clock_mutex' = [clock_mutex EXCEPT ![t] = "run"]
            /\ clock' = [clock EXCEPT ![t].pc = "read"]
    /\ UNCHANGED <<call, ret, gain_dial, gain, mixer_tracks,
                   is_playing_globally, playback_thread, audio_thread,
                   global_audio_thread, sd_stream, text_input, event_queue,
                   display, beat_count, gui, mixer_mutex, mixer_op>>

\* run(), line 54: is_playing is read under the mutex
FlagRead(t) ==
    /\ clock[t].pc = "read"
    /\ clock' = [clock EXCEPT ![t].pc =
                    IF clock[t].is_playing THEN "pass" ELSE "break"]
    /\ UNCHANGED <<call, ret, gain_dial, gain, mixer_tracks,
                   is_playing_globally, playback_thread, audio_thread,
                   global_audio_thread, sd_stream, text_input, event_queue,
                   display, beat_count, gui, mixer_mutex, mixer_op,
                   clock_mutex>>

\* a faulty variant of FlagUnlock: the break leaves the mutex locked
FlagUnlock_not_on_break(t) ==
    /\ clock[t].pc \in {"pass", "break"}
    /\ clock_mutex' = IF clock[t].pc = "pass"
                      THEN [clock_mutex EXCEPT ![t] = "unlocked"]
                      ELSE clock_mutex
    /\ clock' = [clock EXCEPT ![t].pc =
                    IF clock[t].pc = "pass" THEN "emit" ELSE "done"]
    /\ UNCHANGED <<call, ret, gain_dial, gain, mixer_tracks,
                   is_playing_globally, playback_thread, audio_thread,
                   global_audio_thread, sd_stream, text_input, event_queue,
                   display, beat_count, gui, mixer_mutex, mixer_op>>

\* run(), lines 55-57: self.mutex.unlock(), followed by the break or by the
\* emit
FlagUnlock(t) ==
    /\ clock[t].pc \in {"pass", "break"}
    /\ clock_mutex' = [clock_mutex EXCEPT ![t] = "unlocked"]
    /\ clock' = [clock EXCEPT ![t].pc =
                    IF clock[t].pc = "pass" THEN "emit" ELSE "done"]
    /\ UNCHANGED <<call, ret, gain_dial, gain, mixer_tracks,
                   is_playing_globally, playback_thread, audio_thread,
                   global_audio_thread, sd_stream, text_input, event_queue,
                   display, beat_count, gui, mixer_mutex, mixer_op>>

\* run(), lines 58-59: the emit and the sleep, outside the mutex
FlagEmit(t) ==
    /\ clock[t].pc = "emit"
    /\ clock' = [clock EXCEPT ![t] = run_emit(@)]
    /\ UNCHANGED <<call, ret, gain_dial, gain, mixer_tracks,
                   is_playing_globally, playback_thread, audio_thread,
                   global_audio_thread, sd_stream, text_input, event_queue,
                   display, beat_count, gui, mixer_mutex, mixer_op,
                   clock_mutex>>

\* QThread.isRunning() of a clock thread in this view
FlagRunning(th) == th.pc \in {"check", "read", "pass", "break", "emit"}

\* Track.stop, lines 157-158: the thread is running and stop() is called
StopEnter(t) ==
    /\ gui.pc = "idle" /\ mixer_op = NoMixerOp
    /\ FlagRunning(clock[t])
    /\ gui' = [GuiIdle EXCEPT !.pc = "stop_lock", !.track = t]
    /\ UNCHANGED <<call, ret, gain_dial, gain, mixer_tracks,
                   is_playing_globally, playback_thread, audio_thread,
                   global_audio_thread, sd_stream, text_input, clock,
                   event_queue, display, beat_count, mixer_mutex, mixer_op,
                   clock_mutex>>

\* stop(), line 62: self.mutex.lock(), which blocks while the mutex is held
StopLock ==
    /\ gui.pc = "stop_lock"
    /\ clock_mutex[gui.track] = "unlocked"
    /\ clock_mutex' = [clock_mutex EXCEPT ![gui.track] = "stop"]
    /\ gui' = [gui EXCEPT !.pc = "stop_set"]
    /\ UNCHANGED <<call, ret, gain_dial, gain, mixer_tracks,
                   is_playing_globally, playback_thread, audio_thread,
                   global_audio_thread, sd_stream, text_input, clock,
                   event_queue, display, beat_count, mixer_mutex, mixer_op>>

\* stop(), line 63: self.is_playing = False
StopSet ==
    /\ gui.pc = "stop_set"
    /\ clock' = [clock EXCEPT ![gui.track] = AudioPlaybackThread_stop(@)]
    /\ gui' = [gui EXCEPT !.pc = "stop_unlock"]
    /\ UNCHANGED <<call, ret, gain_dial, gain, mixer_tracks,
                   is_playing_globally, playback_thread, audio_thread,
                   global_audio_thread, sd_stream, text_input, event_queue,
                   display, beat_count, mixer_mutex, mixer_op, clock_mutex>>

\* stop(), line 64: self.mutex.unlock(); Track.stop enters wait()
StopUnlock ==
    /\ gui.pc = "stop_unlock"
    /\ clock_mutex' = [clock_mutex EXCEPT ![gui.track] = "unlocked"]
    /\ gui' = [gui EXCEPT !.pc = "wait_clock"]
    /\ UNCHANGED <<call, ret, gain_dial, gain, mixer_tracks,
                   is_playing_globally, playback_thread, audio_thread,
                   global_audio_thread, sd_stream, text_input, clock,
                   event_queue, display, beat_count, mixer_mutex, mixer_op>>

\* playback_thread.wait() returns: the clock thread has left run()
StopWait ==
    /\ gui.pc = "wait_clock"
    /\ ~FlagRunning(clock[gui.track])
    /\ gui' = GuiIdle
    /\ UNCHANGED <<call, ret, gain_dial, gain, mixer_tracks,
                   is_playing_globally, playback_thread, audio_thread,
                   global_audio_thread, sd_stream, text_input, clock,
                   event_queue, display, beat_count, mixer_mutex, mixer_op,
                   clock_mutex>>

\* a handler of the GUI thread calls an operation of the mixer
MixerCall ==
    /\ gui.pc = "idle"
    /\ \/ \E name \in ClockTracks, audio_data \in FlagBuffers :
             MutexLock("add_track", name, audio_data)
       \/ \E name \in ClockTracks : MutexLock("remove_track", name, <<>>)
       \/ MutexLock("get_mixed_audio", "", <<>>)

\* the steps of run() of the clock of track t
FlagStep(t) == FlagLock(t) \/ FlagRead(t) \/ FlagUnlock(t) \/ FlagEmit(t)

\* the steps of the GUI thread inside stop() and inside the mixer
FlagGuiStep ==
    \/ StopLock
    \/ StopSet
    \/ StopUnlock
    \/ StopWait
    \/ MixerAccess
    \/ MutexUnlock

NextFlag ==
    \/ \E t \in ClockTracks : FlagStart(t)
    \/ \E t \in ClockTracks : StopEnter(t)
    \/ MixerCall
    \/ FlagGuiStep
    \/ \E t \in ClockTracks : FlagLock(t)
    \/ \E t \in ClockTracks : FlagRead(t)
    \/ \E t \in ClockTracks : FlagUnlock(t)
    \/ \E t \in ClockTracks : FlagEmit(t)

\* the threads are scheduled: neither the GUI thread nor a clock thread is
\* put off for ever
SpecFlag ==
    /\ InitSpecClock /\ [][NextFlag]_vars
    /\ WF_vars(FlagGuiStep)
    /\ WF_vars(FlagStep("Kick/Snare")) /\ WF_vars(FlagStep("Melody"))

(***************************************************************************)
(* Properties                                                              *)
(***************************************************************************)
\* the notation with every bar replaced by a blank
BarsAsBlanks(notation) ==
    [i \in 1..Len(notation) |-> IF notation[i] = "|" THEN " " ELSE notation[i]]

CallTokens == split(BarsAsBlanks(call.notation))

IsPitch(token) == token \notin {<<"-">>, <<".">>}

RECURSIVE SustainRun(_, _)
\* the number of "-" tokens from index i (counted from 1) on
SustainRun(tokens, i) ==
    IF i > Len(tokens) \/ tokens[i] # <<"-">> THEN 0
    ELSE 1 + SustainRun(tokens, i + 1)

\* the NoteEvents the fold is to give: one for each pitch token
RECURSIVE ExpectedEvents(_, _)
ExpectedEvents(tokens, i) ==
    IF i > Len(tokens) THEN <<>>
    ELSE IF IsPitch(tokens[i])
         THEN <<[note |-> tokens[i], slot |-> i - 1,
                 duration |-> 1 + SustainRun(tokens, i + 1)]>>
              \o ExpectedEvents(tokens, i + 1)
         ELSE ExpectedEvents(tokens, i + 1)

NoteEvents(writes) ==
    [j \in 1..Len(writes) |->
        [note |-> writes[j].note, slot |-> writes[j].slot,
         duration |-> writes[j].duration]]

\* C2: for every token sequence the Melody/Bass fold yields exactly one
\* NoteEvent per pitch token, starting at the token's slot and lasting 1
\* plus the number of '-' tokens right after it, and no other NoteEvent.
C2_OneEventPerPitchToken ==
    (ret.returned /\ call.kind \in Melodic) =>
        /\ ret.value.error = NoError
        /\ NoteEvents(ret.value.writes) = ExpectedEvents(CallTokens, 1)

RECURSIVE SumAt(_, _, _)
\* the sum of sample i of every buffer longer than i - 1
SumAt(tracks, names, i) ==
    IF names = {} THEN 0
    ELSE LET n == CHOOSE x \in names : TRUE
         IN  (IF i <= Len(tracks[n]) THEN tracks[n][i] ELSE 0)
             + SumAt(tracks, names \ {n}, i)

\* C3: combine with no tracks returns an empty buffer; otherwise its length
\* is the longest registered length and its sample i is the sum of sample i
\* of every buffer that has one.
C3_CombineSumsWithPadding ==
    ret.returned =>
        LET mixed == ret.value
            names == DOMAIN mixer_tracks
        IN  /\ names = {} => mixed = <<>>
            /\ \A n \in names : Len(mixed) >= Len(mixer_tracks[n])
            /\ names # {} => \E n \in names : Len(mixed) = Len(mixer_tracks[n])
            /\ \A i \in 1..Len(mixed) : mixed[i] = SumAt(mixer_tracks, names, i)

\* two buffers of unequal length have been mixed: the mix is as long as the
\* longer one and its tail is that buffer's tail
C3_Witness ==
    /\ ret.returned
    /\ \E a, b \in DOMAIN mixer_tracks :
          /\ Len(mixer_tracks[a]) < Len(mixer_tracks[b])
          /\ Len(ret.value) = Len(mixer_tracks[b])
          /\ ret.value[Len(ret.value)] = mixer_tracks[b][Len(ret.value)]

\* C4: the gain is exactly 1.0 at control 50, exactly 4.0 at control 100 and
\* exactly 0 at control 0.
C4_GainAtMarks ==
    /\ gain_dial = 50 => gain = GainScale
    /\ gain_dial = 100 => gain = 4 * GainScale
    /\ gain_dial = 0 => gain = 0

Abs(x) == IF x < 0 THEN -x ELSE x

\* C5: for every tempo and every non-empty token sequence of length N, the
\* Drum, Hat and Metronome synthesizers return a buffer whose length is
\* within one sample of round(44100 * 60/T/4 * N).
C5_PercussionLength ==
    (/\ ret.returned
     /\ call.kind \in {"Drum", "Hat", "Metronome"}
     /\ CallTokens # <<>>) =>
        /\ ret.value.error = NoError
        /\ Abs(ret.value.length - RoundSamples(Len(CallTokens), call.tempo)) <= 1

\* <Letter A-G>[#]<octave digit>
IsNote(token) ==
    /\ Len(token) \in {2, 3}
    /\ token[1] \in {"A", "B", "C", "D", "E", "F", "G"}
    /\ Len(token) = 3 => token[2] = "#"
    /\ token[Len(token)] \in Digits

\* C6: a pitch token that is no valid note, whatever its length and its last
\* character, is rendered at 440 Hz with a diagnostic, no error is raised,
\* and the tokens after it are still synthesized.
C6_InvalidPitchFallsBack ==
    (ret.returned /\ call.kind \in Melodic) =>
        /\ ret.value.error = NoError
        /\ \A j \in 1..Len(ret.value.writes) :
              ~IsNote(ret.value.writes[j].note) =>
                  /\ ret.value.writes[j].semitones = 0
                  /\ ret.value.writes[j].invalid
        /\ \A i \in 1..Len(CallTokens) :
              IsPitch(CallTokens[i]) =>
                  \E j \in 1..Len(ret.value.writes) :
                      ret.value.writes[j].slot = i - 1

\* the controller state Idle
IdleState ==
    /\ ~is_playing_globally
    /\ \A t \in Tracks : ~isRunning(playback_thread[t])
    /\ \A t \in Tracks : ~isRunning(audio_thread[t])
    /\ ~isRunning(global_audio_thread)
    /\ DOMAIN mixer_tracks = {}

\* C7: stopAll() from any controller state leaves the state Idle (flag
\* clear, no Symbol Clock running, no sink unit running, Mixer empty), and a
\* second stopAll() right after it leaves exactly the same state.
C7_StopAllLeavesIdle ==
    [][StopAll => (IdleState' /\ stop_all(Controller') = Controller')]_vars

\* stopAll() has acted on a playback: the clocks and a sink thread it joined
\* are finished and the mixer it cleared is empty
C7_Witness ==
    /\ IdleState
    /\ \A t \in Tracks : playback_thread[t].state = "finished"
    /\ \E t \in Tracks : audio_thread[t].state = "finished"

\* the sink threads that are running
RunningSinks ==
    {t \in Tracks : isRunning(audio_thread[t])}
    \cup (IF isRunning(global_audio_thread) THEN {GlobalSink} ELSE {})

AllTracksMixed == [t \in Tracks |-> TrackAudio(t)]

\* C9: after playAll() returns from any prior state the global-playing flag
\* is set, the Mixer holds exactly one buffer for each track, every track's
\* Symbol Clock has been started on its current tokens, and exactly one
\* sink invocation is running, fed by the combine of all the buffers.
C9_PlayAllStartsEnsemble ==
    [][PlayAll =>
          /\ is_playing_globally'
          /\ mixer_tracks' = AllTracksMixed
          /\ \A t \in Tracks :
                playback_thread'[t] = SymbolClock(tokenize(TrackNotation(t)))
          /\ global_audio_thread' = SinkThread(get_mixed_audio(AllTracksMixed))
          /\ RunningSinks' = {GlobalSink}]_vars

\* playAll() has acted on a state in which a solo sink had been started:
\* that thread is finished and the ensemble sink is the one running
C9_Witness ==
    /\ is_playing_globally
    /\ global_audio_thread = SinkThread(get_mixed_audio(AllTracksMixed))
    /\ \A t \in Tracks : isRunning(playback_thread[t])
    /\ \E t \in Tracks : audio_thread[t].state = "finished"
    /\ RunningSinks = {GlobalSink}

\* C10: in every reachable state at most one sink-driving execution unit,
\* solo or ensemble, is running.
C10_AtMostOneSinkUnit == Cardinality(RunningSinks) <= 1

\* C11: play(track) starts a sink invocation of its own exactly when no
\* ensemble sink invocation is running at that moment; so it does after an
\* ensemble sink invocation has run to its end without stopAll().
C11_PlayStartsSinkIffNoEnsembleSink ==
    [][\A t \in Tracks :
          Play(t) =>
              (isRunning(audio_thread'[t]) <=> ~isRunning(global_audio_thread))]_vars

\* the tokens of the call are all of the kind's vocabulary: for the melodic
\* kinds a pitch token is a valid note
NormalInput ==
    \A i \in 1..Len(CallTokens) :
        call.kind \in Melodic => (~IsPitch(CallTokens[i]) \/ IsNote(CallTokens[i]))

\* C16: no synthesizer raises an error on normal input: for every kind, every
\* tempo and every token sequence over the kind's vocabulary, a sounding
\* symbol in the last slots included, synthesis returns a buffer.
C16_NoSynthesizerRaises ==
    (ret.returned /\ NormalInput) => ret.value.error = NoError

\* the positions of the notation that hold no bar, and the notation without
\* its bars: its k-th character is the character at the k-th such position
NonBarPositions(notation) == {p \in 1..Len(notation) : notation[p] # "|"}

WithoutBars(notation) ==
    [k \in 1..Cardinality(NonBarPositions(notation)) |->
        notation[CHOOSE p \in NonBarPositions(notation) :
                     Cardinality({q \in NonBarPositions(notation) : q < p}) = k - 1]]

\* the positions at which a maximal run of non-whitespace characters starts
RunStarts(text) ==
    {p \in 1..Len(text) :
        /\ ~IsSpace(text[p])
        /\ p = 1 \/ IsSpace(text[p - 1])}

\* the last position of the run that starts at p
RunEnd(text, p) ==
    CHOOSE e \in p..Len(text) :
        /\ \A q \in p..e : ~IsSpace(text[q])
        /\ e = Len(text) \/ IsSpace(text[e + 1])

\* the maximal runs of non-whitespace characters, from left to right
MaximalRuns(text) ==
    [k \in 1..Cardinality(RunStarts(text)) |->
        LET p == CHOOSE x \in RunStarts(text) :
                     Cardinality({y \in RunStarts(text) : y < x}) = k - 1
        IN  SubSeq(text, p, RunEnd(text, p))]

\* C17: the tokens are those got by deleting every bar and then splitting on
\* runs of whitespace: no token is empty, none holds a bar or whitespace, a
\* notation of whitespace and bars only gives no token, and the synthesizer
\* sizes its buffer by this same token sequence.
C17_TokenizeDeletesBarsThenSplits ==
    ret.returned =>
        /\ ret.value = MaximalRuns(WithoutBars(call.notation))
        /\ \A k \in 1..Len(ret.value) :
              /\ ret.value[k] # <<>>
              /\ \A j \in 1..Len(ret.value[k]) :
                    ret.value[k][j] # "|" /\ ~IsSpace(ret.value[k][j])
        /\ (\A p \in 1..Len(call.notation) :
               call.notation[p] = "|" \/ IsSpace(call.notation[p]))
           => ret.value = <<>>
        /\ LyricsTrack_create_audio_data(call.notation, TempoDefault)
               = zeros(SlotSamples(Len(ret.value), TempoDefault))

\* a notation with a bar between two symbols and whitespace elsewhere has
\* been tokenized: the symbols around the bar make one token
C17_Witness ==
    /\ ret.returned
    /\ \E p \in 2..(Len(call.notation) - 1) :
          /\ call.notation[p] = "|"
          /\ ~IsSpace(call.notation[p - 1]) /\ call.notation[p - 1] # "|"
          /\ ~IsSpace(call.notation[p + 1]) /\ call.notation[p + 1] # "|"
    /\ \E p \in 1..Len(call.notation) : call.notation[p] = "\n"
    /\ Len(ret.value) = 1
    /\ Len(ret.value[1]) = 2

\* C19: a track's name is a key of the mixer exactly when the track has been
\* played and not stopped since: play(track) adds the track's key, playAll()
\* leaves the keys of all tracks, stopAll() leaves none, and no other step
\* changes the mixer.
C19_MixerKeysAreActiveTracks ==
    [][/\ \A t \in Tracks :
             Play(t) => DOMAIN mixer_tracks' = DOMAIN mixer_tracks \cup {t}
       /\ PlayAll => DOMAIN mixer_tracks' = Tracks
       /\ StopAll => DOMAIN mixer_tracks' = {}
       /\ ~(PlayAll \/ StopAll \/ \E t \in Tracks : Play(t))
             => mixer_tracks' = mixer_tracks]_vars

\* a track has been played and its clock and sink have run to their end
\* unstopped, while the other track was never played: the mixer holds the
\* key of the first track only
C19_Witness ==
    \E t, u \in Tracks :
        /\ DOMAIN mixer_tracks = {t}
        /\ playback_thread[t].state = "finished"
        /\ audio_thread[t].state = "finished"
        /\ playback_thread[u].state = "none"

\* C15: access to the mixer's mapping is mutually exclusive: every read and
\* every write, the clearing of playAll and stopAll included, is inside the
\* mapping only while the mixer's lock is held.
C15_MappingAccessHoldsLock ==
    mixer_op.pc = "access" => mixer_mutex = "locked"

\* C12: within one Symbol Clock the events emitted so far are at every moment
\* a prefix of the track's token sequence: they come in token order, none is
\* skipped or duplicated, and a stop can only cut the sequence short.
C12_EmittedIsPrefixOfTokens ==
    \A t \in ClockTracks :
        /\ clock[t].pc # "none" => clock[t].symbols = tokenize(text_input[t])
        /\ Len(clock[t].emitted) <= Len(clock[t].symbols)
        /\ clock[t].emitted = SubSeq(clock[t].symbols, 1, Len(clock[t].emitted))
        /\ Len(clock[t].emitted) = clock[t].i

\* a clock has been stopped after its first event and before its last: it
\* has left run() with a proper, non-empty prefix emitted
C12_Witness ==
    \E t \in ClockTracks :
        /\ clock[t].pc = "done"
        /\ ~clock[t].is_playing
        /\ clock[t].emitted # <<>>
        /\ Len(clock[t].emitted) < Len(clock[t].symbols)

\* C13: once stop on a track has returned, no tick of the stopped clock fires
\* any more: while the track stays stopped its clock is not running and its
\* display stays as the stop has reset it.
C13_NoTickAfterStop ==
    gui.pc = "idle" =>
        \A t \in ClockTracks :
            t \notin DOMAIN mixer_tracks =>
                /\ ~ClockRunning(clock[t])
                /\ display[t] = DisplayReset

\* the GUI thread is inside Track.stop
InTrackStop == gui.pc \in {"stop", "wait_clock", "wait_audio"}

\* the track's clock and sink thread are not running, its mixer entry is
\* gone and its display is reset: the state a stop leaves the track in
AlreadyStopped(t) ==
    /\ ~ClockRunning(clock[t])
    /\ ~isRunning(audio_thread[t])
    /\ t \notin DOMAIN mixer_tracks
    /\ display[t] = DisplayReset

\* C14: stopping a Symbol Clock or the sink-driving unit is safe when the
\* unit has finished or was never started; it returns only after the unit
\* has terminated; it always returns; and a stop of a track that is already
\* stopped changes nothing.
C14_StopJoinsReturnsAndIsIdempotent ==
    /\ [](gui.error = NoError)
    /\ [](gui.pc = "stopped" =>
             /\ ~ClockRunning(clock[gui.track])
             /\ ~isRunning(audio_thread[gui.track]))
    /\ [](gui.pc = "play_all" => ~isRunning(global_audio_thread))
    /\ [][(InTrackStop /\ gui' # gui /\ AlreadyStopped(gui.track)) =>
             UNCHANGED <<clock, audio_thread, mixer_tracks, display>>]_vars
    /\ (gui.pc # "idle") ~> (gui.pc = "idle")

\* Track.stop has returned after it stopped a running clock and joined a
\* sink thread
C14_Witness ==
    /\ gui.pc = "stopped"
    /\ clock[gui.track].pc = "done"
    /\ ~clock[gui.track].is_playing
    /\ Len(clock[gui.track].emitted) < Len(clock[gui.track].symbols)
    /\ audio_thread[gui.track].state = "finished"

\* the buffer of no samples
EmptyBuffer == [error |-> NoError, length |-> 0, writes |-> <<>>]

\* C18: with empty notation every kind's synthesizer returns a zero-length
\* buffer without error, the track's clock emits no event and terminates,
\* the combine of empty buffers only is empty, and play(track) and playAll()
\* still complete and reach their playing state.
C18_EmptyNotationPlays ==
    /\ [](/\ gui.error = NoError
          /\ \A kind \in Kinds :
                create_audio_data(kind, <<>>, TempoDefault) = EmptyBuffer
          /\ \A t \in ClockTracks :
                text_input[t] = <<>> =>
                    /\ clock[t].symbols = <<>>
                    /\ clock[t].emitted = <<>>
                    /\ clock[t].pc # "emit"
                    /\ t \in DOMAIN mixer_tracks => mixer_tracks[t] = <<>>
          /\ (/\ DOMAIN mixer_tracks # {}
              /\ \A t \in DOMAIN mixer_tracks : mixer_tracks[t] = <<>>)
             => get_mixed_audio(mixer_tracks) = <<>>)
    /\ [][/\ (PlayRest /\ text_input[gui.track] = <<>>) =>
                /\ gui'.pc = "idle"
                /\ gui.track \in DOMAIN mixer_tracks'
                /\ clock'[gui.track] = AudioPlaybackThread_start(<<>>)
                /\ ~is_playing_globally => isRunning(audio_thread'[gui.track])
          /\ (PlayAllRest /\ \A t \in ClockTracks : text_input[t] = <<>>) =>
                /\ gui'.pc = "idle"
                /\ is_playing_globally'
                /\ DOMAIN mixer_tracks' = ClockTracks
                /\ \A t \in ClockTracks :
                      clock'[t] = AudioPlaybackThread_start(<<>>)
                /\ global_audio_thread' = SinkThread(<<>>)]_vars

\* playAll() has been run with every notation empty: the ensemble sink plays
\* the empty mix and every clock has ended without an event
C18_Witness ==
    /\ \A t \in ClockTracks : text_input[t] = <<>>
    /\ gui.pc = "idle"
    /\ is_playing_globally
    /\ global_audio_thread = [SinkThread(<<>>) EXCEPT !.state = "playing"]
    /\ \A t \in ClockTracks : clock[t].pc = "done" /\ clock[t].emitted = <<>>
    /\ \A t \in ClockTracks : mixer_tracks[t] = <<>>

\* C20: Symbol Clocks are independent: the steps of Track.stop on one track
\* leave every other track's clock, its position included, and every other
\* track's mixer entry unchanged.
C20_StopLeavesOtherTracksAlone ==
    [][(InTrackStop /\ gui' # gui) =>
          \A u \in ClockTracks \ {gui.track} :
              /\ clock'[u] = clock[u]
              /\ u \in DOMAIN mixer_tracks <=> u \in DOMAIN mixer_tracks'
              /\ u \in DOMAIN mixer_tracks => mixer_tracks'[u] = mixer_tracks[u]]_vars

\* a track's running clock has been stopped by Track.stop while another
\* track's clock stands in the middle of its tokens, its buffer in the mixer
C20_Witness ==
    /\ gui.pc = "stopped"
    /\ clock[gui.track].pc = "done" /\ ~clock[gui.track].is_playing
    /\ \E u \in ClockTracks \ {gui.track} :
          /\ clock[u].pc = "emit" /\ clock[u].i = 1
          /\ u \in DOMAIN mixer_tracks /\ mixer_tracks[u] # <<>>

\* n is 44100 * (60/tempo/4) * k rounded to a nearest integer (either
\* neighbour when the value lies half way)
IsRounded(n, k, tempo) ==
    2 * Abs(n * 4 * tempo - SampleRate * 60 * k) <= 4 * tempo

\* C22: for every track kind, every tempo in [5,480] and every token count N,
\* the synthesizer returns a buffer of exactly round(44100 * (60/tempo/4) * N)
\* samples.
C22_BufferLengthIsRounded ==
    (ret.returned /\ ret.value.error = NoError) =>
        IsRounded(ret.value.length, Len(CallTokens), call.tempo)

\* the slots of the call's tokens that hold one of the given symbols,
\* counted from 0
SlotsHolding(symbols) ==
    {i \in 0..(Len(CallTokens) - 1) : CallTokens[i + 1] \in symbols}

\* C23: in the Drum synthesizer each one-shot is cut or padded to exactly one
\* slot width and added at its slot's offset: the written range lies inside
\* the buffer and does not reach into the next slot's range.
C23_DrumSoundFitsItsSlot ==
    (ret.returned /\ call.kind = "Drum") =>
        /\ ret.value.error = NoError
        /\ {ret.value.writes[j].slot : j \in 1..Len(ret.value.writes)}
              = SlotsHolding({<<"K">>, <<"B">>, <<"S">>, <<"C">>})
        /\ \A j \in 1..Len(ret.value.writes) :
              LET w == ret.value.writes[j]
              IN  /\ w.first = (SampleRate * 60 * w.slot) \div (4 * call.tempo)
                  /\ w.count = (SampleRate * 60) \div (4 * call.tempo)
                  /\ 0 <= w.first
                  /\ w.first + w.count <= ret.value.length
                  /\ w.first + w.count
                        <= (SampleRate * 60 * (w.slot + 1)) \div (4 * call.tempo)

\* two drum sounds have been written at a tempo whose slot is shorter than
\* the sounds and is no whole number of samples: each was cut to its slot
C23_Witness ==
    /\ ret.returned /\ call.kind = "Drum"
    /\ Len(ret.value.writes) = 2
    /\ ret.value.writes[1].count < SoundSamples(50)
    /\ ret.value.writes[2].first + ret.value.writes[2].count = ret.value.length - 1

RECURSIVE DanglingAsRest(_, _)
\* the tokens with every sustain mark that is met while no note is held
\* (at the start, or after a rest) turned into a rest; holding tells whether
\* a note is held before the first token
DanglingAsRest(tokens, holding) ==
    IF tokens = <<>> THEN <<>>
    ELSE LET token == Head(tokens)
         IN  IF token = <<"-">>
             THEN <<IF holding THEN token ELSE <<".">>>>
                      \o DanglingAsRest(Tail(tokens), holding)
             ELSE <<token>> \o DanglingAsRest(Tail(tokens), token # <<".">>)

\* C24: in the Melody/Bass fold a sustain mark or a rest met while no note
\* is held is a no-op: the result, its NoteEvents included, is the same as
\* if each dangling sustain mark were a rest, whatever tokens follow, and
\* marks and rests alone yield no event.
C24_DanglingSustainIsNoOp ==
    (ret.returned /\ call.kind \in Melodic) =>
        /\ ret.value = create_audio_data(call.kind,
                           Join(DanglingAsRest(CallTokens, FALSE)), call.tempo)
        /\ (\A i \in 1..Len(CallTokens) : ~IsPitch(CallTokens[i])) =>
               /\ ret.value.error = NoError
               /\ ret.value.writes = <<>>

\* a sequence that starts with a sustain mark and goes on with a sustained
\* note has been synthesized
C24_Witness ==
    /\ ret.returned /\ call.kind \in Melodic
    /\ Len(CallTokens) = 3
    /\ CallTokens[1] = <<"-">> /\ IsNote(CallTokens[2]) /\ CallTokens[3] = <<"-">>
    /\ ret.value.error = NoError
    /\ Len(ret.value.writes) = 1
    /\ ret.value.writes[1].slot = 1 /\ ret.value.writes[1].duration = 2

\* C29: for every token sequence of length N the NoteEvents of the
\* Melody/Bass fold never overlap and stay inside the pattern: they come in
\* increasing start order, each event's start + duration is at most the next
\* event's start and at most N, and the samples written for each event lie
\* within the buffer.
C29_NoteEventsDoNotOverlap ==
    (ret.returned /\ call.kind \in Melodic) =>
        LET events == ret.value.writes
        IN  /\ \A j \in 1..Len(events) :
                  /\ 0 <= events[j].slot
                  /\ 1 <= events[j].duration
                  /\ events[j].slot + events[j].duration <= Len(CallTokens)
                  /\ 0 <= events[j].first
                  /\ 0 <= events[j].count
                  /\ events[j].first + events[j].count <= ret.value.length
            /\ \A j \in 1..(Len(events) - 1) :
                  /\ events[j].slot < events[j + 1].slot
                  /\ events[j].slot + events[j].duration <= events[j + 1].slot

\* a sustained note followed at once by a second note has been synthesized:
\* the first event ends where the second starts, the second at the end
C29_Witness ==
    /\ ret.returned /\ call.kind \in Melodic
    /\ ret.value.error = NoError
    /\ Len(ret.value.writes) = 2
    /\ ret.value.writes[1].duration = 2
    /\ ret.value.writes[2].slot = 2
    /\ ret.value.writes[2].first + ret.value.writes[2].count = ret.value.length

\* the symbols of a kind that add a sound
Sounding(kind) ==
    CASE kind = "Metronome" -> {<<"@">>, <<"$">>}
      [] kind = "Drum"      -> {<<"K">>, <<"B">>, <<"S">>, <<"C">>}
      [] kind = "Hat"       -> {<<"H">>, <<"O">>, <<"P">>}
      [] OTHER              -> {}

\* C27: in the Metronome, Drum, Hat and Lyrics synthesizers a token outside
\* the kind's sounding symbols adds no sound for its slot and raises no
\* error: the synthesizer returns, and the slots at which a sound starts are
\* exactly the slots holding a sounding symbol.
C27_OtherTokensAreSilent ==
    (ret.returned /\ call.kind \notin Melodic) =>
        /\ ret.value.error = NoError
        /\ {ret.value.writes[j].slot : j \in 1..Len(ret.value.writes)}
              = SlotsHolding(Sounding(call.kind))

\* the semitone of a letter above C: the major scale's steps 2 2 1 2 2 2
LetterSemitone(letter) ==
    CASE letter = "C" -> 0
      [] letter = "D" -> 2
      [] letter = "E" -> 2 + 2
      [] letter = "F" -> 2 + 2 + 1
      [] letter = "G" -> 2 + 2 + 1 + 2
      [] letter = "A" -> 2 + 2 + 1 + 2 + 2
      [] letter = "B" -> 2 + 2 + 1 + 2 + 2 + 2

\* the value of a digit character: its place in "0123456789"
DigitValue(c) ==
    CHOOSE d \in 0..9 :
        <<"0", "1", "2", "3", "4", "5", "6", "7", "8", "9">>[d + 1] = c

\* the distance from A4, in semitones, of a token <Letter>[#]<digit>
SemitonesFromA4(token) ==
    LetterSemitone(token[1]) + (IF Len(token) = 3 THEN 1 ELSE 0) - 9
        + 12 * (DigitValue(token[Len(token)]) - 4)

\* C26: pitch parsing of a valid token <Letter>[#]<octave digit> takes the
\* semitone from the table and the octave from the last digit: the note lies
\* (semitone - 9) + 12 * (octave - 4) semitones from A4 (A4 at 0, 440 Hz;
\* C4 at -9), for naturals and sharps alike.
C26_PitchIsSemitonesFromA4 ==
    ret.returned =>
        /\ ret.value.error = NoError
        /\ ~ret.value.invalid
        /\ ret.value.semitones = SemitonesFromA4(call.note)
        /\ call.note = <<"A", "4">> => ret.value.semitones = 0
        /\ call.note = <<"C", "4">> => ret.value.semitones = -9

\* a sharp in an octave other than the fourth has been parsed
C26_Witness ==
    /\ ret.returned
    /\ call.note = <<"F", "#", "5">>
    /\ ret.value.semitones = 9

\* C25: the clock suspends for exactly slot_duration = 60/tempo/4 seconds
\* after each event, for every tempo: the k-th event (k from 0) is due at
\* k * slot_duration, that is k * 15000 / tempo milliseconds, the start of
\* slot k of the audio.
C25_EventsDueAtSlotStarts ==
    ret.returned =>
        ret.value.slept_ms * call.tempo = ret.value.events * 15000

\* C28: while the ensemble plays, play(track) on a single track, and the stop
\* it begins with, leaves the running ensemble sink invocation untouched,
\* for every track kind alike: the ensemble's thread and its audio stream go
\* on.
C28_PlayLeavesEnsembleSink ==
    [][\A t \in Tracks :
          (/\ Play(t)
           /\ is_playing_globally
           /\ global_audio_thread.state = "playing"
           /\ sd_stream = GlobalSink) =>
              /\ global_audio_thread' = global_audio_thread
              /\ sd_stream' = GlobalSink]_vars

\* C30: a Symbol Clock that is never stopped emits exactly one event per
\* token, as many events as the slot count used for the track's buffer
\* length, and then terminates on its own; a stopped clock terminates after
\* at most the event in flight.
C30_ClockEmitsEachTokenAndEnds ==
    /\ [](\A t \in ClockTracks :
             (clock[t].pc = "done" /\ clock[t].is_playing) =>
                 /\ clock[t].emitted = tokenize(text_input[t])
                 /\ create_audio_data(TrackKind(t), text_input[t],
                                      TempoDefault).length
                       = SlotSamples(Len(clock[t].emitted), TempoDefault))
    /\ [][\A t \in ClockTracks :
             (/\ ClockRunning(clock[t])
              /\ ~clock[t].is_playing
              /\ clock'[t] # clock[t]) =>
                 IF clock[t].pc = "check"
                 THEN /\ clock'[t].pc = "done"
                      /\ clock'[t].emitted = clock[t].emitted
                 ELSE /\ clock'[t].pc = "check"
                      /\ Len(clock'[t].emitted) = Len(clock[t].emitted) + 1]_vars
    /\ \A t \in StepTracks : []<>(~ClockRunning(clock[t]))

\* a clock has run to its end without being stopped and has emitted an event
\* for each of its tokens
C30_Witness ==
    \E t \in ClockTracks :
        /\ clock[t].pc = "done"
        /\ clock[t].is_playing
        /\ clock[t].emitted # <<>>
        /\ clock[t].emitted = clock[t].symbols

\* the '@' and '$' among the given symbols
BeatsIn(symbols) ==
    Cardinality({k \in 1..Len(symbols) : symbols[k] \in {<<"@">>, <<"$">>}})

\* C21: the Metronome's beat counter is 0 while the Metronome has not been
\* started or has been stopped; during a playback, once the pending events
\* are displayed, it is the number of '@' and '$' the playback's clock has
\* emitted; and it never exceeds the number of '@' and '$' tokens of the
\* notation.
C21_BeatCountFollowsClock ==
    \A m \in {t \in ClockTracks : IsMetronome(t)} :
        /\ (/\ gui.pc = "idle"
            /\ (clock[m].pc = "none" \/ ~clock[m].is_playing)) =>
               /\ beat_count = 0
               /\ display[m] \in {DisplayReset, BeatLabel(0)}
        /\ (/\ gui.pc = "idle"
            /\ event_queue = <<>>
            /\ ClockRunning(clock[m])
            /\ clock[m].is_playing) =>
               beat_count = BeatsIn(clock[m].emitted)
        /\ beat_count <= BeatsIn(tokenize(text_input[m]))

\* the entries of the mapping other than the one under name are as they were
OtherEntriesKept(name) ==
    /\ DOMAIN mixer_tracks' \ {name} = DOMAIN mixer_tracks \ {name}
    /\ \A n \in DOMAIN mixer_tracks \ {name} : mixer_tracks'[n] = mixer_tracks[n]

\* C32: add_track(name, buffer) leaves exactly the given buffer under name,
\* whatever was there before, and every other entry as it was; remove_track
\* deletes the entry under name and no other, and leaves the mapping as it
\* was when name is absent; get_mixed_audio leaves the mapping as it was.
C32_MixerFrameEffects ==
    [][MixerAccess =>
          CASE mixer_op.op = "add_track" ->
                  /\ mixer_op.name \in DOMAIN mixer_tracks'
                  /\ mixer_tracks'[mixer_op.name] = mixer_op.audio_data
                  /\ OtherEntriesKept(mixer_op.name)
            [] mixer_op.op = "remove_track" ->
                  /\ mixer_op.name \notin DOMAIN mixer_tracks'
                  /\ OtherEntriesKept(mixer_op.name)
                  /\ mixer_op.name \notin DOMAIN mixer_tracks =>
                         mixer_tracks' = mixer_tracks
            [] OTHER ->
                  /\ mixer_tracks' = mixer_tracks
                  /\ ret' = Returned(get_mixed_audio(mixer_tracks'))]_vars

\* add_track has put a buffer under a name next to an entry that holds a
\* different buffer
C32_Witness ==
    /\ mixer_op.op = "add_track"
    /\ mixer_op.pc = "unlock"
    /\ mixer_tracks[mixer_op.name] = mixer_op.audio_data
    /\ \E n \in DOMAIN mixer_tracks \ {mixer_op.name} :
          mixer_tracks[n] # mixer_op.audio_data

\* C31: the mixer's mutex is held only while an operation of the mixer is
\* between its lock() and its unlock(), and the mutex of a clock only while
\* run() or stop() is between its lock() and its unlock(): with no such
\* operation under way the lock is free, on the early return of
\* get_mixed_audio and on the break of run() too.  No caller waits for a
\* lock for ever: every lock is free again and again, a stop() that waits
\* for the lock gets it, and so does run().
C31_LocksAreReleased ==
    /\ [](mixer_mutex = "locked" <=> mixer_op.pc \in {"access", "unlock"})
    /\ [](\A t \in ClockTracks :
             /\ clock_mutex[t] = "run" <=> clock[t].pc \in {"read", "pass", "break"}
             /\ clock_mutex[t] = "stop" <=>
                    (gui.pc \in {"stop_set", "stop_unlock"} /\ gui.track = t))
    /\ []<>(mixer_mutex = "unlocked")
    /\ \A t \in StepTracks : []<>(clock_mutex[t] = "unlocked")
    /\ []<>(gui.pc # "stop_lock")
    /\ \A t \in StepTracks : []<>(clock[t].pc # "check")

\* get_mixed_audio has returned early on the empty mapping and a clock has
\* left run() through the break, with symbols left: every lock is free
C31_Witness ==
    /\ ret = Returned(<<>>)
    /\ mixer_op = NoMixerOp
    /\ mixer_tracks = NoTracks
    /\ mixer_mutex = "unlocked"
    /\ gui.pc = "idle"
    /\ \E t \in ClockTracks :
          /\ clock[t].pc = "done"
          /\ ~clock[t].is_playing
          /\ clock[t].i < Len(clock[t].symbols)
          /\ clock_mutex[t] = "unlocked"
====
